---------------------------- MODULE Spec2Model ----------------------------
(***************************************************************************)
(* Model of the status-expression evaluator of gpkg_editor                 *)
(* (status_expression.py) and of the dock widget's status display that     *)
(* calls it (gpkg_editor_dockwidget.py, _update_status_display).           *)
(*                                                                         *)
(* Python strings are sequences of one-character strings.  Python values   *)
(* (None, bool, int, float, str) are records of one shape, so that any two *)
(* of them can be compared.  Floats are exact rationals n/d in lowest      *)
(* terms; the literals and cells of the model keep every finite float of  *)
(* a run in the range where double arithmetic is exact or is rendered to   *)
(* fewer than 16 digits.  The floats that are not finite have d = 0:       *)
(* inf is 1/0, -inf is -1/0 and nan is 0/0.                                *)
(***************************************************************************)
EXTENDS Integers, Sequences, FiniteSets, TLC

\* the _Evaluator object of the last call of evaluate_row_expr, as the call
\* left it: its tokens and its cursor
VARIABLE ev

(***************************************************************************)
(* Characters                                                              *)
(***************************************************************************)
\* str.isdigit
isdigit(c) == c \in {"0", "1", "2", "3", "4", "5", "6", "7", "8", "9"}

\* str.isalpha, over the letters the model's strings are written with
isalpha(c) == c \in {"a", "b", "c", "d", "e", "f", "i", "l", "m", "n", "o", "q",
                     "r", "s", "t", "u", "x", "y", "z", "C", "F", "I", "M", "N", "O", "S", "T", "U"}

\* str.isalnum
isalnum(c) == isalpha(c) \/ isdigit(c)

\* str.isspace
isspace(c) == c \in {" ", "\t", "\n", "\r"}

\* The characters of the model in code-point order (str comparison).
CodePoints == <<"\t", "\n", "\r", " ", "!", "\"", "#", "'", "(", ")", "*", "+",
                ",", "-", ".", "/", "0", "1", "2", "3", "4", "5", "6", "7", "8",
                "9", ":", "<", "=", ">", "C", "F", "I", "M", "N", "O", "S", "T", "U", "_", "a",
                "b", "c", "d", "e", "f", "i", "l", "m", "n", "o", "q", "r", "s",
                "t", "u", "x", "y", "z", "|">>

\* ord(c), up to an order-preserving renumbering
ord(c) == CHOOSE i \in 1..Len(CodePoints) : CodePoints[i] = c

\* one character of str.lower
lower_char(c) ==
    CASE c = "C" -> "c" [] c = "F" -> "f" [] c = "I" -> "i" [] c = "M" -> "m"
      [] c = "N" -> "n" [] c = "O" -> "o" [] c = "S" -> "s" [] c = "T" -> "t"
      [] c = "U" -> "u" [] OTHER -> c

\* str.lower
lower(s) == [i \in 1..Len(s) |-> lower_char(s[i])]

\* str.replace(old, new) for a one-character old
RECURSIVE replace(_, _, _)
replace(s, old, new) ==
    IF s = <<>> THEN <<>>
    ELSE (IF Head(s) = old THEN new ELSE <<Head(s)>>) \o replace(Tail(s), old, new)

\* s < t for Python strings (lexicographic on code points)
RECURSIVE str_lt(_, _)
str_lt(s, t) ==
    IF t = <<>> THEN FALSE
    ELSE IF s = <<>> THEN TRUE
    ELSE IF Head(s) = Head(t) THEN str_lt(Tail(s), Tail(t))
    ELSE ord(Head(s)) < ord(Head(t))

(***************************************************************************)
(* Values                                                                  *)
(***************************************************************************)
RECURSIVE gcd(_, _)
gcd(a, b) == IF b = 0 THEN a ELSE gcd(b, a % b)

abs(x) == IF x < 0 THEN -x ELSE x

None == [t |-> "none", n |-> 0, d |-> 1, s |-> <<>>]
PyBool(b) == [t |-> "bool", n |-> IF b THEN 1 ELSE 0, d |-> 1, s |-> <<>>]
PyInt(i) == [t |-> "int", n |-> i, d |-> 1, s |-> <<>>]
PyStr(s) == [t |-> "str", n |-> 0, d |-> 1, s |-> s]

\* the sign of an integer
sgn(n) == IF n < 0 THEN -1 ELSE IF n > 0 THEN 1 ELSE 0

\* the float n/d in lowest terms with a positive denominator; with d = 0 it
\* is inf, -inf or nan by the sign of n
PyFloat(n, d) ==
    IF d = 0 THEN [t |-> "float", n |-> sgn(n), d |-> 0, s |-> <<>>]
    ELSE LET g == gcd(abs(n), abs(d))
             sg == IF d < 0 THEN -1 ELSE 1
         IN  [t |-> "float", n |-> sg * (n \div g), d |-> sg * (d \div g), s |-> <<>>]

\* math.isnan, and x != 0 for a number
isnan(x) == x.d = 0 /\ x.n = 0
nonzero(x) == x.n # 0 \/ x.d = 0

\* isinstance(v, (int, float)): bool is a subclass of int
is_number(v) == v.t \in {"bool", "int", "float"}

\* The outcome of a Python call that may raise: exc = "" when it returned v.
Ok(v) == [exc |-> "", v |-> v]
Raise(e) == [exc |-> e, v |-> None]

(***************************************************************************)
(* Built-ins: str(), float(), int(), round()                               *)
(***************************************************************************)
Digit == <<"0", "1", "2", "3", "4", "5", "6", "7", "8", "9">>

\* the decimal digits of a natural number
RECURSIVE nat_str(_)
nat_str(k) == IF k < 10 THEN <<Digit[k + 1]>> ELSE nat_str(k \div 10) \o <<Digit[(k % 10) + 1]>>

\* str(i) for an int
int_str(i) == IF i < 0 THEN <<"-">> \o nat_str(-i) ELSE nat_str(i)

\* the fraction digits of r/d (0 <= r < d), at most k of them
RECURSIVE frac_str(_, _, _)
frac_str(r, d, k) ==
    IF r = 0 \/ k = 0 THEN <<>>
    ELSE <<Digit[((10 * r) \div d) + 1]>> \o frac_str((10 * r) % d, d, k - 1)

\* str(x) for a float x = n/d: repr keeps a decimal point
float_str(n, d) ==
    LET a == abs(n)
        sign == IF n < 0 THEN <<"-">> ELSE <<>>
    IN  IF d = 0 THEN IF n = 0 THEN <<"n", "a", "n">> ELSE sign \o <<"i", "n", "f">>
        ELSE IF d = 1 THEN sign \o nat_str(a) \o <<".", "0">>
        ELSE sign \o nat_str(a \div d) \o <<".">> \o frac_str(a % d, d, 16)

\* str(v)
str(v) ==
    CASE v.t = "none" -> <<"N", "o", "n", "e">>
      [] v.t = "bool" -> IF v.n = 1 THEN <<"T", "r", "u", "e">> ELSE <<"F", "a", "l", "s", "e">>
      [] v.t = "int" -> int_str(v.n)
      [] v.t = "float" -> float_str(v.n, v.d)
      [] OTHER -> v.s

\* str.strip
RECURSIVE lstrip(_)
lstrip(s) == IF s # <<>> /\ isspace(Head(s)) THEN lstrip(Tail(s)) ELSE s
RECURSIVE rstrip(_)
rstrip(s) == IF s # <<>> /\ isspace(s[Len(s)]) THEN rstrip(SubSeq(s, 1, Len(s) - 1)) ELSE s
strip(s) == rstrip(lstrip(s))

\* the value of a run of digits and at most one point, as a pair <<n, d>>
RECURSIVE dec_value(_, _, _, _)
dec_value(s, n, d, seen) ==
    IF s = <<>> THEN <<n, d>>
    ELSE IF Head(s) = "." THEN dec_value(Tail(s), n, d, TRUE)
    ELSE dec_value(Tail(s), 10 * n + (ord(Head(s)) - ord("0")),
                   IF seen THEN 10 * d ELSE d, seen)

count_char(s, c) == Cardinality({i \in 1..Len(s) : s[i] = c})

\* float(s) for a str: surrounding whitespace and one sign are accepted, the
\* rest is inf, infinity or nan in any case, or digits with at most one point
\* and at least one digit.  (No text of the model holds an exponent or a
\* digit separator.)
float_of_str(s) ==
    LET u == strip(s)
        signed == u # <<>> /\ Head(u) \in {"+", "-"}
        minus == IF signed /\ Head(u) = "-" THEN -1 ELSE 1
        body == IF signed THEN Tail(u) ELSE u
        wellformed == /\ \A i \in 1..Len(body) : isdigit(body[i]) \/ body[i] = "."
                      /\ count_char(body, ".") <= 1
                      /\ \E i \in 1..Len(body) : isdigit(body[i])
    IN  IF lower(body) \in {<<"i", "n", "f">>, <<"i", "n", "f", "i", "n", "i", "t", "y">>}
        THEN Ok(PyFloat(minus, 0))
        ELSE IF lower(body) = <<"n", "a", "n">> THEN Ok(PyFloat(0, 0))
        ELSE IF ~wellformed THEN Raise("ValueError")
        ELSE LET nd == dec_value(body, 0, 1, FALSE)
             IN  Ok(PyFloat(minus * nd[1], nd[2]))

\* float(v)
float(v) ==
    CASE v.t = "none" -> Raise("TypeError")
      [] v.t = "str" -> float_of_str(v.s)
      [] OTHER -> Ok(PyFloat(v.n, v.d))

\* int(x) for a float: truncation toward zero; inf and nan have no int
int_of_float(x) ==
    IF x.d = 0 THEN Raise(IF x.n = 0 THEN "ValueError" ELSE "OverflowError")
    ELSE Ok(PyInt(IF x.n >= 0 THEN x.n \div x.d ELSE -((-x.n) \div x.d)))

\* floor(n/d) for d > 0
floor_div(n, d) == n \div d

\* round(n/d) to the nearest integer, ties to the even one
round_half_even(n, d) ==
    LET f == floor_div(n, d)
        r2 == 2 * (n - f * d)
    IN  IF r2 < d THEN f ELSE IF r2 > d THEN f + 1 ELSE IF f % 2 = 0 THEN f ELSE f + 1

RECURSIVE pow10(_)
pow10(k) == IF k = 0 THEN 1 ELSE 10 * pow10(k - 1)

\* round(x): an int; inf and nan have none
round1(x) ==
    IF x.d = 0 THEN Raise(IF x.n = 0 THEN "ValueError" ELSE "OverflowError")
    ELSE Ok(PyInt(round_half_even(x.n, x.d)))

\* round(x, nd): a float; inf and nan are returned as they are
round2(x, nd) ==
    IF x.d = 0 THEN x
    ELSE IF nd >= 0 THEN PyFloat(round_half_even(x.n * pow10(nd), x.d), pow10(nd))
    ELSE PyFloat(round_half_even(x.n, x.d * pow10(-nd)) * pow10(-nd), 1)

\* float arithmetic; inf - inf, 0 * inf and inf / inf are nan
f_neg(x) == PyFloat(-x.n, x.d)
f_add(x, y) ==
    IF x.d = 0 /\ y.d = 0 THEN IF x.n = y.n THEN x ELSE PyFloat(0, 0)
    ELSE PyFloat(x.n * y.d + y.n * x.d, x.d * y.d)
f_sub(x, y) == f_add(x, f_neg(y))
f_mul(x, y) == PyFloat(x.n * y.n, x.d * y.d)
\* x / y for y # 0
f_div(x, y) == PyFloat(x.n * y.d * sgn(y.n), x.d * abs(y.n))
\* comparison of numbers (bool, int, float): every comparison with nan is
\* false
num_lt(x, y) ==
    IF isnan(x) \/ isnan(y) THEN FALSE
    ELSE IF x.d = 0 /\ y.d = 0 THEN x.n < y.n
    ELSE x.n * y.d < y.n * x.d
num_eq(x, y) ==
    IF isnan(x) \/ isnan(y) THEN FALSE
    ELSE IF x.d = 0 /\ y.d = 0 THEN x.n = y.n
    ELSE x.n * y.d = y.n * x.d
num_le(x, y) == num_lt(x, y) \/ num_eq(x, y)

(***************************************************************************)
(* Tokens and the tokenizer                                                *)
(***************************************************************************)
\* a token (kind, value); the value of a NUM is a float, of the others a str
Tok(k, v) == [k |-> k, v |-> v]
TOp(s) == Tok("OP", PyStr(s))
LPAREN == Tok("LPAREN", PyStr(<<"(">>))
RPAREN == Tok("RPAREN", PyStr(<<")">>))
COMMA == Tok("COMMA", PyStr(<<",">>))

\* the first index j >= i with j > Len(expr) or expr[j] = q
RECURSIVE scan_quote(_, _, _)
scan_quote(expr, i, q) ==
    IF i <= Len(expr) /\ expr[i] # q THEN scan_quote(expr, i + 1, q) ELSE i

\* the first index j >= i that ends a run of digits and points
RECURSIVE scan_number(_, _)
scan_number(expr, i) ==
    IF i <= Len(expr) /\ (isdigit(expr[i]) \/ expr[i] = ".") THEN scan_number(expr, i + 1) ELSE i

\* the first index j >= i that ends a run of letters, digits and underscores
RECURSIVE scan_ident(_, _)
scan_ident(expr, i) ==
    IF i <= Len(expr) /\ (isalnum(expr[i]) \/ expr[i] = "_") THEN scan_ident(expr, i + 1) ELSE i

\* expr[a:b] with 1-based a and exclusive b, clipped like a Python slice
slice(s, a, b) == SubSeq(s, a, (IF b - 1 > Len(s) THEN Len(s) ELSE b - 1))

TwoCharOps == {<<"|", "|">>, <<"!", "=">>, <<">", "=">>, <<"<", "=">>}
OneCharOps == {"=", ">", "<", "+", "-", "*", "/"}

\* float(expr[i:j]) of the number rule: a run of digits and points
number_literal(run) == float_of_str(run)

\* the while loop of _tokenize from index i (1-based) with the tokens so far;
\* the outcome is the token list, or the exception float() raised
RECURSIVE tokenize_from(_, _, _)
tokenize_from(expr, i, tokens) ==
    IF i > Len(expr) THEN Ok(tokens)
    ELSE LET c == expr[i]
             n == Len(expr)
         IN  IF isspace(c) THEN tokenize_from(expr, i + 1, tokens)
             ELSE IF c = "'" THEN
                 LET j == scan_quote(expr, i + 1, "'")
                 IN  tokenize_from(expr, j + 1, Append(tokens, Tok("STR", PyStr(slice(expr, i + 1, j)))))
             ELSE IF c = "\"" THEN
                 LET j == scan_quote(expr, i + 1, "\"")
                 IN  tokenize_from(expr, j + 1, Append(tokens, Tok("COL", PyStr(slice(expr, i + 1, j)))))
             ELSE IF isdigit(c) \/ (c = "." /\ i + 1 <= n /\ isdigit(expr[i + 1])) THEN
                 LET j == scan_number(expr, i)
                     f == number_literal(slice(expr, i, j))
                 IN  IF f.exc # "" THEN f
                     ELSE tokenize_from(expr, j, Append(tokens, Tok("NUM", f.v)))
             ELSE IF slice(expr, i, i + 2) \in TwoCharOps THEN
                 tokenize_from(expr, i + 2, Append(tokens, TOp(slice(expr, i, i + 2))))
             ELSE IF c \in OneCharOps THEN
                 tokenize_from(expr, i + 1, Append(tokens, TOp(<<c>>)))
             ELSE IF c = "(" THEN tokenize_from(expr, i + 1, Append(tokens, LPAREN))
             ELSE IF c = ")" THEN tokenize_from(expr, i + 1, Append(tokens, RPAREN))
             ELSE IF c = "," THEN tokenize_from(expr, i + 1, Append(tokens, COMMA))
             ELSE IF isalpha(c) \/ c = "_" THEN
                 LET j == scan_ident(expr, i)
                 IN  tokenize_from(expr, j, Append(tokens, Tok("IDENT", PyStr(slice(expr, i, j)))))
             ELSE tokenize_from(expr, i + 1, tokens)

\* _tokenize(expr): Ok(tokens), or Raise(e)
_tokenize(expr) == tokenize_from(expr, 1, <<>>)

(***************************************************************************)
(* Helpers                                                                 *)
(***************************************************************************)
\* the rendering both _format and _to_str give a float:
\* str(int(value)) if value == int(value) else str(value); int() raises
\* for inf and nan
float_text(v) ==
    IF int_of_float(v).exc # "" THEN Raise(int_of_float(v).exc)
    ELSE IF v.d = 1 THEN Ok(str(int_of_float(v).v))
    ELSE Ok(str(v))

\* _format(value): the string returned, or the exception raised
_format(value) ==
    IF value.t = "none" THEN Ok(<<>>)
    ELSE IF value.t = "bool" THEN Ok(str(value))
    ELSE IF value.t = "float" THEN float_text(value)
    ELSE Ok(str(value))

\* a _to_str without the branch for floats: str(value) for every number
_to_str_plain(value) ==
    IF value.t = "none" THEN Ok(<<>>) ELSE Ok(str(value))

\* _to_str(value): the string returned, or the exception raised
_to_str(value) ==
    IF value.t = "none" THEN Ok(<<>>)
    ELSE IF value.t = "float" THEN float_text(value)
    ELSE Ok(str(value))

CompareOps == {<<"=">>, <<"!", "=">>, <<">">>, <<"<">>, <<">", "=">>, <<"<", "=">>}

\* the text comparison at the end of _compare
compare_text(ls, op, rs) ==
    CASE op = <<"=">> -> ls = rs
      [] op = <<"!", "=">> -> ls # rs
      [] op = <<">">> -> str_lt(rs, ls)
      [] op = <<"<">> -> str_lt(ls, rs)
      [] op = <<">", "=">> -> ~str_lt(ls, rs)
      [] op = <<"<", "=">> -> ~str_lt(rs, ls)
      [] OTHER -> FALSE

\* _compare(left, op, right): the bool returned, or the exception _to_str
\* raised
_compare(left, op, right) ==
    LET lf == IF is_number(left) THEN Ok(left) ELSE float(left)
        rf == IF is_number(right) THEN Ok(right) ELSE float(right)
    IN  IF lf.exc = "" /\ rf.exc = "" /\ op \in CompareOps THEN
            Ok(PyBool(CASE op = <<"=">> -> num_eq(lf.v, rf.v)
                        [] op = <<"!", "=">> -> ~num_eq(lf.v, rf.v)
                        [] op = <<">">> -> num_lt(rf.v, lf.v)
                        [] op = <<"<">> -> num_lt(lf.v, rf.v)
                        [] op = <<">", "=">> -> num_le(rf.v, lf.v)
                        [] op = <<"<", "=">> -> num_le(lf.v, rf.v)))
        ELSE IF _to_str(left).exc # "" THEN Raise(_to_str(left).exc)
        ELSE IF _to_str(right).exc # "" THEN Raise(_to_str(right).exc)
        ELSE Ok(PyBool(compare_text(_to_str(left).v, op, _to_str(right).v)))

\* an _is_truthy that takes text for the number it spells, so that '0' is
\* false
_is_truthy_numeric(value) ==
    IF value.t = "none" THEN FALSE
    ELSE IF value.t = "str" THEN value.s # <<>> /\ value.s # <<"0">>
    ELSE nonzero(value)

\* _is_truthy(value)
_is_truthy(value) ==
    IF value.t = "none" THEN FALSE
    ELSE IF value.t = "bool" THEN value.n = 1
    ELSE IF value.t \in {"int", "float"} THEN nonzero(value)
    ELSE value.s # <<>>

(***************************************************************************)
(* Rows and tables                                                         *)
(***************************************************************************)
\* A row is a dict, kept as its items in insertion order, or None.
Row(cells) == [none |-> FALSE, cells |-> cells]
NoRow == [none |-> TRUE, cells |-> <<>>]
Cell(k, v) == [k |-> k, v |-> v]

\* dict.get(key)
dict_get(cells, key) ==
    IF \E i \in 1..Len(cells) : cells[i].k = key
    THEN cells[CHOOSE i \in 1..Len(cells) : cells[i].k = key].v
    ELSE None

\* A table is a list of rows, or None.
Table(rows) == [none |-> FALSE, rows |-> rows]
NoTable == [none |-> TRUE, rows |-> <<>>]

(***************************************************************************)
(* The recursive-descent evaluator.  An evaluator object is the record     *)
(* self = [tokens, data, row, pos, trace]; a method maps self to the       *)
(* outcome [exc, v, self]: the exception it raised ("" for none), the      *)
(* value it returned and the object as the method left it.  trace is the   *)
(* history of the values pos was given, the first by __init__.             *)
(***************************************************************************)
Ret(self, v) == [exc |-> "", v |-> v, self |-> self]
Exc(self, e) == [exc |-> e, v |-> None, self |-> self]

\* an __init__ that keeps the cursor of the evaluator object before it
_Evaluator_kept(tokens, data, row) ==
    [tokens |-> tokens, data |-> data, row |-> row,
     pos |-> IF ev.pos <= Len(tokens) THEN ev.pos ELSE 0,
     trace |-> <<IF ev.pos <= Len(tokens) THEN ev.pos ELSE 0>>]

\* _Evaluator.__init__
_Evaluator(tokens, data, row) ==
    [tokens |-> tokens, data |-> data, row |-> row, pos |-> 0, trace |-> <<0>>]

\* self.pos += 1
moved(self) == [self EXCEPT !.pos = self.pos + 1, !.trace = Append(self.trace, self.pos + 1)]

\* what _peek returns past the end of the tokens: None
NoToken == Tok("", None)

\* a _peek without the range check: at the end of the tokens it gives the
\* last token again
_peek_last(self) ==
    IF self.pos < Len(self.tokens) THEN self.tokens[self.pos + 1]
    ELSE IF self.tokens = <<>> THEN NoToken
    ELSE self.tokens[Len(self.tokens)]

\* _Evaluator._peek
_peek(self) == IF self.pos < Len(self.tokens) THEN self.tokens[self.pos + 1] ELSE NoToken

\* _Evaluator._consume
_consume(self) ==
    IF self.pos < Len(self.tokens)
    THEN Ret(moved(self), self.tokens[self.pos + 1])
    ELSE Exc(self, "IndexError")

RECURSIVE parse_concat(_), concat_loop(_, _, _), _parse_compare(_), compare_steps(_, _, _),
          _parse_add(_), add_loop(_, _, _), _parse_mul(_), mul_loop(_, _, _),
          _parse_unary(_), _parse_primary(_), _parse_function(_, _), _parse_if(_),
          _parse_aggregate(_, _), _parse_round(_), row_results(_, _, _, _)

\* Each method below hands the outcome r of a sub-expression to the operator
\* holding the statements that follow the call: when r is an exception those
\* statements are skipped and r goes up.

\* parse_concat after the operand r: left = _to_str(left) + _to_str(right)
\* once an || was taken, and the while test
concat_next(r, left, joined) ==
    IF r.exc # "" THEN r
    ELSE IF joined /\ _to_str(left).exc # "" THEN Exc(r.self, _to_str(left).exc)
    ELSE IF joined /\ _to_str(r.v).exc # "" THEN Exc(r.self, _to_str(r.v).exc)
    ELSE LET acc == IF joined THEN PyStr(_to_str(left).v \o _to_str(r.v).v) ELSE r.v
         IN  IF _peek(r.self) = TOp(<<"|", "|">>) THEN
                 LET c == _consume(r.self)
                 IN  IF c.exc # "" THEN c ELSE concat_loop(c.self, acc, TRUE)
             ELSE Ret(r.self, acc)

\* parse_concat from an operand on: left is the text joined so far (joined),
\* or nothing yet; the while loop goes on after every ||
concat_loop(self, left, joined) == concat_next(_parse_compare(self), left, joined)

\* _Evaluator.parse_concat
parse_concat(self) == concat_loop(self, None, FALSE)

\* a compare_next with a while loop in place of the if: every further
\* comparison operator is applied to the boolean so far
compare_next_chained(r, left, op) ==
    IF r.exc # "" THEN r
    ELSE LET acc == IF op = <<>> THEN Ok(r.v) ELSE _compare(left, op, r.v)
         IN  IF acc.exc # "" THEN Exc(r.self, acc.exc)
             ELSE IF _peek(r.self).k = "OP" /\ _peek(r.self).v.s \in CompareOps THEN
                 LET c == _consume(r.self)
                 IN  IF c.exc # "" THEN c ELSE compare_steps(c.self, acc.v, c.v.v.s)
             ELSE Ret(r.self, acc.v)

\* _parse_compare after the operand r: the if test on the next token after
\* the left operand, _compare(left, op, right) after the right one
compare_next(r, left, op) ==
    IF r.exc # "" THEN r
    ELSE IF op # <<>> THEN
        IF _compare(left, op, r.v).exc # "" THEN Exc(r.self, _compare(left, op, r.v).exc)
        ELSE Ret(r.self, _compare(left, op, r.v).v)
    ELSE IF _peek(r.self).k = "OP" /\ _peek(r.self).v.s \in CompareOps THEN
        LET c == _consume(r.self)
        IN  IF c.exc # "" THEN c ELSE compare_steps(c.self, r.v, c.v.v.s)
    ELSE r

\* _parse_compare from an operand on: op is the comparison operator consumed
\* after left, or <<>> before the left operand; one operator at most is taken
compare_steps(self, left, op) == compare_next(_parse_add(self), left, op)

\* _Evaluator._parse_compare
_parse_compare(self) == compare_steps(self, None, <<>>)

\* an addition that counts an operand float() refuses as 0.0
add_values_lenient(left, op, right) ==
    LET lf == IF float(left).exc = "" THEN float(left).v ELSE PyFloat(0, 1)
        rf == IF float(right).exc = "" THEN float(right).v ELSE PyFloat(0, 1)
    IN  IF op = <<"+">> THEN f_add(lf, rf) ELSE f_sub(lf, rf)

\* lf + rf or lf - rf inside the try of _parse_add
add_values(left, op, right) ==
    IF float(left).exc # "" \/ float(right).exc # "" THEN None
    ELSE IF op = <<"+">> THEN f_add(float(left).v, float(right).v)
    ELSE f_sub(float(left).v, float(right).v)

\* _parse_add after the operand r: the try block once an operator was taken,
\* and the while test
add_next(r, left, op) ==
    IF r.exc # "" THEN r
    ELSE LET acc == IF op = <<>> THEN r.v ELSE add_values(left, op, r.v)
         IN  IF _peek(r.self).k = "OP" /\ _peek(r.self).v.s \in {<<"+">>, <<"-">>} THEN
                 LET c == _consume(r.self)
                 IN  IF c.exc # "" THEN c ELSE add_loop(c.self, acc, c.v.v.s)
             ELSE Ret(r.self, acc)

\* an add_loop that takes its operands from _parse_unary, leaving out the
\* level of * and /
add_loop_unary(self, left, op) == add_next(_parse_unary(self), left, op)

\* _parse_add from an operand on: op is the operator consumed after left, or
\* <<>> before the first operand; the while loop goes on after every + or -
add_loop(self, left, op) == add_next(_parse_mul(self), left, op)

\* _Evaluator._parse_add
_parse_add(self) == add_loop(self, None, <<>>)

\* a division without the test rf != 0, division by zero giving 0.0
mul_values_unguarded(left, op, right) ==
    IF float(left).exc # "" \/ float(right).exc # "" THEN None
    ELSE IF op = <<"*">> THEN f_mul(float(left).v, float(right).v)
    ELSE IF nonzero(float(right).v) THEN f_div(float(left).v, float(right).v)
    ELSE PyFloat(0, 1)

\* lf * rf or lf / rf inside the try of _parse_mul
mul_values(left, op, right) ==
    IF float(left).exc # "" \/ float(right).exc # "" THEN None
    ELSE IF op = <<"*">> THEN f_mul(float(left).v, float(right).v)
    ELSE IF nonzero(float(right).v) THEN f_div(float(left).v, float(right).v)
    ELSE None

\* _parse_mul after the operand r: the try block once an operator was taken,
\* and the while test
mul_next(r, left, op) ==
    IF r.exc # "" THEN r
    ELSE LET acc == IF op = <<>> THEN r.v ELSE mul_values(left, op, r.v)
         IN  IF _peek(r.self).k = "OP" /\ _peek(r.self).v.s \in {<<"*">>, <<"/">>} THEN
                 LET c == _consume(r.self)
                 IN  IF c.exc # "" THEN c ELSE mul_loop(c.self, acc, c.v.v.s)
             ELSE Ret(r.self, acc)

\* _parse_mul from an operand on: op is the operator consumed after left, or
\* <<>> before the first operand; the while loop goes on after every * or /
mul_loop(self, left, op) == mul_next(_parse_unary(self), left, op)

\* _Evaluator._parse_mul
_parse_mul(self) == mul_loop(self, None, <<>>)

\* -float(val) inside the try of _parse_unary
neg_value(val) == IF float(val).exc # "" THEN None ELSE f_neg(float(val).v)

\* the try block of _parse_unary on the operand r
negated(r) == IF r.exc # "" THEN r ELSE Ret(r.self, neg_value(r.v))

\* _Evaluator._parse_unary
_parse_unary(self) ==
    IF _peek(self) = TOp(<<"-">>) THEN
        LET c == _consume(self)
        IN  IF c.exc # "" THEN c ELSE negated(_parse_unary(c.self))
    ELSE _parse_primary(self)

\* column_ref with dict.pop in place of dict.get: the key leaves the row
column_ref_pop(self, name) ==
    LET kept(c) == c.k # name
    IN  IF ~self.row.none
        THEN Ret([self EXCEPT !.row = Row(SelectSeq(self.row.cells, kept))],
                 dict_get(self.row.cells, name))
        ELSE Ret(self, None)

\* a column_ref that looks the column up in the first row of the table when
\* the row does not have it
column_ref_table(self, name) ==
    IF ~self.row.none /\ dict_get(self.row.cells, name) # None
    THEN Ret(self, dict_get(self.row.cells, name))
    ELSE IF self.data # <<>> THEN Ret(self, dict_get(self.data[1].cells, name))
    ELSE Ret(self, None)

\* a column_ref with self.row[name] in place of the test and dict.get
column_ref_subscript(self, name) ==
    IF self.row.none THEN Exc(self, "TypeError")
    ELSE IF dict_get(self.row.cells, name) = None THEN Exc(self, "KeyError")
    ELSE Ret(self, dict_get(self.row.cells, name))

\* the column branch of _parse_primary: self.row.get(name), None without a row
column_ref(self, name) ==
    IF ~self.row.none THEN Ret(self, dict_get(self.row.cells, name)) ELSE Ret(self, None)

\* an optional token of kind k: consumed when it is next
skip_if(self, k) ==
    IF _peek(self).k = k THEN _consume(self) ELSE Ret(self, None)

\* the call branch of _parse_primary, after the identifier t was consumed
call_or_name(self, t) ==
    IF _peek(self).k = "LPAREN" THEN
        LET p == _consume(self)
        IN  IF p.exc # "" THEN p ELSE _parse_function(p.self, lower(t.v.s))
    ELSE Ret(self, None)

\* the parenthesis branch of _parse_primary after val: the closing
\* parenthesis is consumed when it is next
group_end(val) ==
    IF val.exc # "" THEN val
    ELSE LET q == skip_if(val.self, "RPAREN")
         IN  IF q.exc # "" THEN q ELSE Ret(q.self, val.v)

\* the parenthesis branch of _parse_primary, after the opening one was consumed
group(self) == group_end(parse_concat(self))

\* _Evaluator._parse_primary
_parse_primary(self) ==
    IF _peek(self) = NoToken THEN Ret(self, None)
    ELSE LET t == _peek(self)
             c == _consume(self)
         IN  IF c.exc # "" THEN c
             ELSE IF t.k = "NUM" THEN Ret(c.self, t.v)
             ELSE IF t.k = "STR" THEN Ret(c.self, t.v)
             ELSE IF t.k = "COL" THEN column_ref(c.self, t.v.s)
             ELSE IF t.k = "IDENT" THEN call_or_name(c.self, t)
             ELSE IF t.k = "LPAREN" THEN group(c.self)
             ELSE Ret(c.self, None)

\* a collect_scan that does not count depth: the slice ends at the first
\* closing parenthesis
RECURSIVE collect_scan_flat(_, _, _)
collect_scan_flat(self, depth, start) ==
    IF self.pos < Len(self.tokens) THEN
        IF self.tokens[self.pos + 1].k = "RPAREN"
        THEN Ret(moved(self), SubSeq(self.tokens, start + 1, self.pos))
        ELSE collect_scan_flat(moved(self), depth, start)
    ELSE Ret(self, SubSeq(self.tokens, start + 1, Len(self.tokens)))

\* the while loop of _collect_arg_tokens: the outcome's value is the slice
RECURSIVE collect_scan(_, _, _)
collect_scan(self, depth, start) ==
    IF self.pos < Len(self.tokens) THEN
        LET t == self.tokens[self.pos + 1]
            next == moved(self)
        IN  IF t.k = "LPAREN" THEN collect_scan(next, depth + 1, start)
            ELSE IF t.k = "RPAREN" THEN
                IF depth - 1 = 0 THEN Ret(next, SubSeq(self.tokens, start + 1, self.pos))
                ELSE collect_scan(next, depth - 1, start)
            ELSE collect_scan(next, depth, start)
    ELSE Ret(self, SubSeq(self.tokens, start + 1, Len(self.tokens)))

\* a _collect_arg_tokens whose slice starts at the first token of the list
_collect_arg_tokens_all(self) == collect_scan(self, 1, 0)

\* _Evaluator._collect_arg_tokens
_collect_arg_tokens(self) == collect_scan(self, 1, self.pos)

\* a skip_scan that does not count depth: it stops after the first closing
\* parenthesis
RECURSIVE skip_scan_flat(_, _)
skip_scan_flat(self, depth) ==
    IF self.pos < Len(self.tokens) THEN
        LET c == _consume(self)
        IN  IF c.exc # "" THEN c
            ELSE IF c.v.k = "RPAREN" THEN Ret(c.self, None)
            ELSE skip_scan_flat(c.self, depth)
    ELSE Ret(self, None)

\* the while loop of _skip_to_rparen
RECURSIVE skip_scan(_, _)
skip_scan(self, depth) ==
    IF self.pos < Len(self.tokens) THEN
        LET c == _consume(self)
        IN  IF c.exc # "" THEN c
            ELSE IF c.v.k = "LPAREN" THEN skip_scan(c.self, depth + 1)
            ELSE IF c.v.k = "RPAREN" THEN
                IF depth - 1 = 0 THEN Ret(c.self, None) ELSE skip_scan(c.self, depth - 1)
            ELSE skip_scan(c.self, depth)
    ELSE Ret(self, None)

\* _Evaluator._skip_to_rparen
_skip_to_rparen(self) == skip_scan(self, 1)

AggregateNames == {<<"c", "o", "u", "n", "t">>, <<"s", "u", "m">>, <<"m", "i", "n">>,
                   <<"m", "a", "x">>, <<"u", "n", "i", "q", "u", "e">>}

\* _Evaluator._parse_function
_parse_function(self, name) ==
    IF name = <<"i", "f">> THEN _parse_if(self)
    ELSE IF name = <<"r", "o", "u", "n", "d">> THEN _parse_round(self)
    ELSE IF name \in AggregateNames THEN _parse_aggregate(self, name)
    ELSE _skip_to_rparen(self)

\* one argument of if: parse_concat after an optional comma; the comma of
\* the first argument is the opening parenthesis, already consumed
if_argument(self, first_one) ==
    LET c == IF first_one THEN Ret(self, None) ELSE skip_if(self, "COMMA")
    IN  IF c.exc # "" THEN c ELSE parse_concat(c.self)

\* _parse_if after false_val: the closing parenthesis and the return
if_end(cond, true_val, false_val) ==
    IF false_val.exc # "" THEN false_val
    ELSE LET q == skip_if(false_val.self, "RPAREN")
         IN  IF q.exc # "" THEN q
             ELSE Ret(q.self, IF _is_truthy(cond) THEN true_val ELSE false_val.v)

\* an if that returns true_val as soon as the condition is truthy, leaving
\* the third argument unparsed
if_false_val_early(cond, true_val) ==
    IF true_val.exc # "" THEN true_val
    ELSE IF _is_truthy(cond) THEN true_val
    ELSE if_end(cond, true_val.v, if_argument(true_val.self, FALSE))

\* _parse_if after true_val
if_false_val(cond, true_val) ==
    IF true_val.exc # "" THEN true_val
    ELSE if_end(cond, true_val.v, if_argument(true_val.self, FALSE))

\* _parse_if after cond
if_true_val(cond) ==
    IF cond.exc # "" THEN cond
    ELSE if_false_val(cond.v, if_argument(cond.self, FALSE))

\* _Evaluator._parse_if
_parse_if(self) == if_true_val(if_argument(self, TRUE))

\* a per-row evaluator that is given the row of its caller
aggregate_row_of_caller(self, row) == self.row

\* the row a per-row evaluator of an aggregate is given
aggregate_row(self, row) == row

\* results.append(val) for the value r of row i; the per-row evaluator shares
\* self.data and the row with its caller
row_result(self, arg_tokens, i, results, r) ==
    LET shared == [self EXCEPT !.data = [r.self.data EXCEPT ![i] = r.self.row]]
    IN  IF r.exc # "" THEN Exc(shared, r.exc)
        ELSE row_results(shared, arg_tokens, i + 1, Append(results, r.v))

\* the for loop of _parse_aggregate from row i on: the outcome's value is the
\* list results.  The per-row evaluator shares self.data and the row with its
\* caller, so what it leaves of them is what the caller goes on with.
row_results(self, arg_tokens, i, results) ==
    IF i > Len(self.data) THEN Ret(self, results)
    ELSE row_result(self, arg_tokens, i, results,
             parse_concat(_Evaluator(arg_tokens, self.data, aggregate_row(self, self.data[i]))))

\* a sum that starts again from 0 at a row float() refuses
RECURSIVE sum_loop_reset(_, _)
sum_loop_reset(results, total) ==
    IF results = <<>> THEN total
    ELSE sum_loop_reset(Tail(results),
                        IF float(Head(results)).exc = "" THEN f_add(total, float(Head(results)).v)
                        ELSE PyFloat(0, 1))

\* sum: total += float(v), skipping the rows float() refuses
RECURSIVE sum_loop(_, _)
sum_loop(results, total) ==
    IF results = <<>> THEN total
    ELSE sum_loop(Tail(results),
                  IF float(Head(results)).exc = "" THEN f_add(total, float(Head(results)).v)
                  ELSE total)

\* min/max: the list nums
RECURSIVE min_max_nums(_)
min_max_nums(results) ==
    IF results = <<>> THEN <<>>
    ELSE LET v == Head(results)
         IN  (IF v.t # "none" /\ str(v) # <<>>
              THEN <<IF float(v).exc = "" THEN float(v).v ELSE PyStr(str(v))>>
              ELSE <<>>) \o min_max_nums(Tail(results))

\* x < y between two items of nums of the same type
item_lt(x, y) == IF x.t = "str" THEN str_lt(x.s, y.s) ELSE num_lt(x, y)

\* min and max keep the first item and replace it by every later item that
\* is less (greater) than it
RECURSIVE min_max_from(_, _, _)
min_max_from(nums, func_name, best) ==
    IF nums = <<>> THEN best
    ELSE IF func_name = <<"m", "i", "n">>
    THEN min_max_from(Tail(nums), func_name,
                      IF item_lt(Head(nums), best) THEN Head(nums) ELSE best)
    ELSE min_max_from(Tail(nums), func_name,
                      IF item_lt(best, Head(nums)) THEN Head(nums) ELSE best)

\* min(nums) / max(nums) of a non-empty list: comparing a float with a str
\* is a TypeError
min_max(nums, func_name) ==
    LET items == {nums[i] : i \in 1..Len(nums)}
    IN  IF \E x, y \in items : x.t # y.t THEN Raise("TypeError")
        ELSE Ok(min_max_from(Tail(nums), func_name, Head(nums)))

\* the min/max branch of _parse_aggregate
min_max_results(self, func_name, results) ==
    IF min_max_nums(results) = <<>> THEN Ret(self, None)
    ELSE LET m == min_max(min_max_nums(results), func_name)
         IN  IF m.exc # "" THEN Exc(self, m.exc) ELSE Ret(self, m.v)

\* a combine whose count takes every row, truthy or not
combine_count_all(self, func_name, results) == Ret(self, PyInt(Len(results)))

\* the value an aggregate makes of the per-row results
combine(self, func_name, results) ==
    IF func_name = <<"c", "o", "u", "n", "t">> THEN
        Ret(self, PyInt(Cardinality({i \in 1..Len(results) : _is_truthy(results[i])})))
    ELSE IF func_name = <<"s", "u", "m">> THEN
        Ret(self, sum_loop(results, PyFloat(0, 1)))
    ELSE IF func_name \in {<<"m", "i", "n">>, <<"m", "a", "x">>} THEN
        min_max_results(self, func_name, results)
    ELSE IF func_name = <<"u", "n", "i", "q", "u", "e">> THEN
        Ret(self, PyInt(Cardinality({str(results[i]) :
            i \in {j \in 1..Len(results) : results[j].t # "none" /\ str(results[j]) # <<>>}})))
    ELSE Ret(self, None)

\* _parse_aggregate after its for loop
combine_results(rs, func_name) ==
    IF rs.exc # "" THEN rs ELSE combine(rs.self, func_name, rs.v)

\* _Evaluator._parse_aggregate
_parse_aggregate(self, func_name) ==
    IF _peek(self).k = "RPAREN" THEN
        LET c == _consume(self)
        IN  IF c.exc # "" THEN c
            ELSE IF func_name = <<"c", "o", "u", "n", "t">> THEN Ret(c.self, PyInt(Len(self.data)))
            ELSE Ret(c.self, None)
    ELSE
        LET a == _collect_arg_tokens(self)
        IN  combine_results(row_results(a.self, a.v, 1, <<>>), func_name)

\* the rounding at the end of _parse_round
round_value(value, ndigits) ==
    IF float(value).exc # "" THEN Ok(None)
    ELSE IF ndigits.t = "none" \/ ndigits = PyStr(<<>>) THEN round1(float(value).v)
    ELSE IF float(ndigits).exc # "" THEN round1(float(value).v)
    ELSE IF int_of_float(float(ndigits).v).exc = "ValueError" THEN round1(float(value).v)
    ELSE IF int_of_float(float(ndigits).v).exc # ""
    THEN Raise(int_of_float(float(ndigits).v).exc)
    ELSE Ok(round2(float(value).v, int_of_float(float(ndigits).v).v.n))

\* the optional second argument of round: None when no comma follows
round_digits(self) ==
    IF _peek(self).k = "COMMA" THEN
        LET c == _consume(self)
        IN  IF c.exc # "" THEN c ELSE parse_concat(c.self)
    ELSE Ret(self, None)

\* _parse_round after ndigits: the closing parenthesis and the rounding
round_end(value, ndigits) ==
    IF ndigits.exc # "" THEN ndigits
    ELSE LET q == skip_if(ndigits.self, "RPAREN")
         IN  IF q.exc # "" THEN q
             ELSE IF round_value(value, ndigits.v).exc # ""
             THEN Exc(q.self, round_value(value, ndigits.v).exc)
             ELSE Ret(q.self, round_value(value, ndigits.v).v)

\* _parse_round after value
round_ndigits(value) ==
    IF value.exc # "" THEN value ELSE round_end(value.v, round_digits(value.self))

\* _Evaluator._parse_round
_parse_round(self) == round_ndigits(parse_concat(self))

(***************************************************************************)
(* evaluate_row_expr                                                       *)
(***************************************************************************)
\* an except clause for ValueError alone
caught_value_error(exc) == exc = "ValueError"

\* the except clause of evaluate_row_expr: every Exception is caught
caught(exc) == exc \in {"ValueError", "TypeError", "IndexError", "OverflowError"}

\* the `data or []` of evaluate_row_expr
data_or_empty(data) == IF data.none THEN <<>> ELSE data.rows

\* the string the except clause returns: expr, rebound by the replace calls
fallback(expr, replaced) == replaced

\* what a call returns to its caller and leaves behind: exc is the exception
\* that reached the caller ("" for none), v the string returned, failed
\* whether the except clause ran, ev the evaluator object of the call, and
\* row and data the caller's row and table as the call left them
Outcome(exc, v, failed, tokens, pos, trace, row, data) ==
    [exc |-> exc, v |-> v, failed |-> failed,
     ev |-> [tokens |-> tokens, pos |-> pos, trace |-> trace],
     row |-> row, data |-> data]

\* a return that takes tokens left after the expression for an error and
\* gives the expression text
returned_strict(expr, replaced, data, result) ==
    LET left == IF data_or_empty(data) = <<>> THEN data ELSE Table(result.self.data)
        exc == IF result.exc # "" THEN result.exc ELSE _format(result.v).exc
    IN  IF exc = "" /\ result.self.pos = Len(result.self.tokens) THEN
            Outcome("", _format(result.v).v, FALSE, result.self.tokens, result.self.pos,
                    result.self.trace, result.self.row, left)
        ELSE IF exc = "" \/ caught(exc) THEN
            Outcome("", fallback(expr, replaced), TRUE, result.self.tokens,
                    result.self.pos, result.self.trace, result.self.row, left)
        ELSE Outcome(exc, <<>>, TRUE, result.self.tokens, result.self.pos, result.self.trace,
                     result.self.row, left)

\* return _format(result), or the except clause when parse_concat raised
returned(expr, replaced, data, result) ==
    LET left == IF data_or_empty(data) = <<>> THEN data ELSE Table(result.self.data)
        exc == IF result.exc # "" THEN result.exc ELSE _format(result.v).exc
    IN  IF exc = "" THEN
            Outcome("", _format(result.v).v, FALSE, result.self.tokens, result.self.pos, result.self.trace,
                    result.self.row, left)
        ELSE IF caught(exc) THEN
            Outcome("", fallback(expr, replaced), TRUE, result.self.tokens,
                    result.self.pos, result.self.trace, result.self.row, left)
        ELSE Outcome(exc, <<>>, TRUE, result.self.tokens, result.self.pos, result.self.trace,
                     result.self.row, left)

\* the try block of evaluate_row_expr and its except clause
try_evaluate(expr, replaced, row, data) ==
    LET tokens == _tokenize(replaced)
    IN  IF tokens.exc # "" THEN
            IF caught(tokens.exc) THEN Outcome("", fallback(expr, replaced), TRUE, <<>>, 0, <<>>, row, data)
            ELSE Outcome(tokens.exc, <<>>, TRUE, <<>>, 0, <<>>, row, data)
        ELSE returned(expr, replaced, data,
                      parse_concat(_Evaluator(tokens.v, data_or_empty(data), row)))

\* evaluate_row_expr(expr, row, data)
evaluate_row_expr(expr, row, data) ==
    IF expr = <<>> THEN Outcome("", <<>>, FALSE, <<>>, 0, <<>>, row, data)
    ELSE try_evaluate(expr, replace(replace(expr, "\n", <<" ">>), "\r", <<>>), row, data)

(***************************************************************************)
(* Inputs: expressions, rows and tables                                    *)
(***************************************************************************)
\* the longest table of the model
MaxRows == 2

RECURSIVE cat(_)
cat(parts) == IF parts = <<>> THEN <<>> ELSE Head(parts) \o cat(Tail(parts))

quoted(s) == <<"'">> \o s \o <<"'">>
column(s) == <<"\"">> \o s \o <<"\"">>
binary(a, op, b) == cat(<<a, <<" ">>, op, <<" ">>, b>>)
parens(a) == cat(<<<<"(">>, a, <<")">>>>)

ColA == column(<<"a">>)
ColB == column(<<"b">>)

\* lexical anomalies and odd token streams
LexicalExprs == {
    \* 1.2.3
    <<"1", ".", "2", ".", "3">>,
    \* 1..
    <<"1", ".", ".">>,
    \* 1.
    <<"1", ".">>,
    \* .5
    <<".", "5">>,
    \* 1.5.
    <<"1", ".", "5", ".">>,
    \* . 5
    <<".", " ", "5">>,
    \* 'ab
    <<"'", "a", "b">>,
    \* "a
    <<"\"", "a">>,
    \* 'a' 'b
    <<"'", "a", "'", " ", "'", "b">>,
    \* #
    <<"#">>,
    \* 1 # 2
    <<"1", " ", "#", " ", "2">>,
    \* !
    <<"!">>,
    \* 1 +
    <<"1", " ", "+">>,
    \* (
    <<"(">>,
    \* )
    <<")">>,
    \* ,
    <<",">>,
    \* ()
    <<"(", ")">>,
    \* 1 2
    <<"1", " ", "2">>,
    \* a
    <<"a">>,
    \* _x1
    <<"_", "x", "1">>,
    \* 1 )
    <<"1", " ", ")">>,
    \* 'a' , 'b'
    <<"'", "a", "'", " ", ",", " ", "'", "b", "'">>,
    \* "c"
    <<"\"", "c", "\"">>,
    \*  
    <<" ">>,
    \* 	1
    <<"\t", "1">>
    }

\* expressions with line breaks
NewlineExprs == {
    \* 1\n+ 1
    <<"1", "\n", "+", " ", "1">>,
    \* 1.2.3\n
    <<"1", ".", "2", ".", "3", "\n">>,
    \* \r1..
    <<"\r", "1", ".", ".">>,
    \* \n
    <<"\n">>,
    \* 'a\nb'
    <<"'", "a", "\n", "b", "'">>,
    \* \r\n1
    <<"\r", "\n", "1">>,
    \* min("a")\n
    <<"m", "i", "n", "(", "\"", "a", "\"", ")", "\n">>,
    \* max(\n"a")
    <<"m", "a", "x", "(", "\n", "\"", "a", "\"", ")">>,
    \* 1\r2
    <<"1", "\r", "2">>,
    \* 'x' ||\r\n "a"
    <<"'", "x", "'", " ", "|", "|", "\r", "\n", " ", "\"", "a", "\"">>
    }

\* row-context expressions: columns, if, round, unknown functions
PlainExprs == {
    \* "a"
    <<"\"", "a", "\"">>,
    \* "b"
    <<"\"", "b", "\"">>,
    \* "a" + 1
    <<"\"", "a", "\"", " ", "+", " ", "1">>,
    \* "a" || 'x'
    <<"\"", "a", "\"", " ", "|", "|", " ", "'", "x", "'">>,
    \* -"a"
    <<"-", "\"", "a", "\"">>,
    \* ("a")
    <<"(", "\"", "a", "\"", ")">>,
    \* "a" = "b"
    <<"\"", "a", "\"", " ", "=", " ", "\"", "b", "\"">>,
    \* "a" / 0
    <<"\"", "a", "\"", " ", "/", " ", "0">>,
    \* "a" > 1
    <<"\"", "a", "\"", " ", ">", " ", "1">>,
    \* if("a" > 1, "a", 'n')
    <<"i", "f", "(", "\"", "a", "\"", " ", ">", " ", "1", ",", " ", "\"", "a", "\"", ",", " ", "'", "n", "'", ")">>,
    \* if("a", 1, 2)
    <<"i", "f", "(", "\"", "a", "\"", ",", " ", "1", ",", " ", "2", ")">>,
    \* if("a" = 'x', 'y')
    <<"i", "f", "(", "\"", "a", "\"", " ", "=", " ", "'", "x", "'", ",", " ", "'", "y", "'", ")">>,
    \* round("a")
    <<"r", "o", "u", "n", "d", "(", "\"", "a", "\"", ")">>,
    \* round("a", 1)
    <<"r", "o", "u", "n", "d", "(", "\"", "a", "\"", ",", " ", "1", ")">>,
    \* round(2.5)
    <<"r", "o", "u", "n", "d", "(", "2", ".", "5", ")">>,
    \* round(3.5)
    <<"r", "o", "u", "n", "d", "(", "3", ".", "5", ")">>,
    \* round(2.567, 2)
    <<"r", "o", "u", "n", "d", "(", "2", ".", "5", "6", "7", ",", " ", "2", ")">>,
    \* round("a", 'x')
    <<"r", "o", "u", "n", "d", "(", "\"", "a", "\"", ",", " ", "'", "x", "'", ")">>,
    \* f("a")
    <<"f", "(", "\"", "a", "\"", ")">>,
    \* f(1, (2)) || 'x'
    <<"f", "(", "1", ",", " ", "(", "2", ")", ")", " ", "|", "|", " ", "'", "x", "'">>,
    \* count
    <<"c", "o", "u", "n", "t">>,
    \* count + 1
    <<"c", "o", "u", "n", "t", " ", "+", " ", "1">>,
    \* 'sum("a")'
    <<"'", "s", "u", "m", "(", "\"", "a", "\"", ")", "'">>,
    \* sum
    <<"s", "u", "m">>,
    \* IF(1, 'y', 'n')
    <<"I", "F", "(", "1", ",", " ", "'", "y", "'", ",", " ", "'", "n", "'", ")">>,
    \* if(1, 'a') || 'z'
    <<"i", "f", "(", "1", ",", " ", "'", "a", "'", ")", " ", "|", "|", " ", "'", "z", "'">>,
    \* round(2.4, ) || 'x'
    <<"r", "o", "u", "n", "d", "(", "2", ".", "4", ",", " ", ")", " ", "|", "|", " ", "'", "x", "'">>,
    \* if(
    <<"i", "f", "(">>,
    \* round(
    <<"r", "o", "u", "n", "d", "(">>,
    \* f(
    <<"f", "(">>
    }

\* one aggregate call
AggregateExprs == {
    \* count()
    <<"c", "o", "u", "n", "t", "(", ")">>,
    \* sum()
    <<"s", "u", "m", "(", ")">>,
    \* min()
    <<"m", "i", "n", "(", ")">>,
    \* max()
    <<"m", "a", "x", "(", ")">>,
    \* unique()
    <<"u", "n", "i", "q", "u", "e", "(", ")">>,
    \* COUNT()
    <<"C", "O", "U", "N", "T", "(", ")">>,
    \* count("a")
    <<"c", "o", "u", "n", "t", "(", "\"", "a", "\"", ")">>,
    \* sum("a")
    <<"s", "u", "m", "(", "\"", "a", "\"", ")">>,
    \* min("a")
    <<"m", "i", "n", "(", "\"", "a", "\"", ")">>,
    \* max("a")
    <<"m", "a", "x", "(", "\"", "a", "\"", ")">>,
    \* unique("a")
    <<"u", "n", "i", "q", "u", "e", "(", "\"", "a", "\"", ")">>,
    \* count("b")
    <<"c", "o", "u", "n", "t", "(", "\"", "b", "\"", ")">>,
    \* sum("b")
    <<"s", "u", "m", "(", "\"", "b", "\"", ")">>,
    \* min("b")
    <<"m", "i", "n", "(", "\"", "b", "\"", ")">>,
    \* max("b")
    <<"m", "a", "x", "(", "\"", "b", "\"", ")">>,
    \* unique("b")
    <<"u", "n", "i", "q", "u", "e", "(", "\"", "b", "\"", ")">>,
    \* Sum("a")
    <<"S", "u", "m", "(", "\"", "a", "\"", ")">>,
    \* count(
    <<"c", "o", "u", "n", "t", "(">>,
    \* sum("a"
    <<"s", "u", "m", "(", "\"", "a", "\"">>,
    \* count("a" != '')
    <<"c", "o", "u", "n", "t", "(", "\"", "a", "\"", " ", "!", "=", " ", "'", "'", ")">>,
    \* count("a" > 1)
    <<"c", "o", "u", "n", "t", "(", "\"", "a", "\"", " ", ">", " ", "1", ")">>,
    \* sum("a" + 1)
    <<"s", "u", "m", "(", "\"", "a", "\"", " ", "+", " ", "1", ")">>,
    \* sum(-"a")
    <<"s", "u", "m", "(", "-", "\"", "a", "\"", ")">>,
    \* max("a" || 'x')
    <<"m", "a", "x", "(", "\"", "a", "\"", " ", "|", "|", " ", "'", "x", "'", ")">>,
    \* min(("a"))
    <<"m", "i", "n", "(", "(", "\"", "a", "\"", ")", ")">>,
    \* unique("a" = "b")
    <<"u", "n", "i", "q", "u", "e", "(", "\"", "a", "\"", " ", "=", " ", "\"", "b", "\"", ")">>,
    \* count(1)
    <<"c", "o", "u", "n", "t", "(", "1", ")">>,
    \* sum(1)
    <<"s", "u", "m", "(", "1", ")">>,
    \* unique(1)
    <<"u", "n", "i", "q", "u", "e", "(", "1", ")">>,
    \* max(1)
    <<"m", "a", "x", "(", "1", ")">>,
    \* count("a" 1)
    <<"c", "o", "u", "n", "t", "(", "\"", "a", "\"", " ", "1", ")">>
    }

\* aggregates inside expressions and inside aggregates
NestedExprs == {
    \* sum(count())
    <<"s", "u", "m", "(", "c", "o", "u", "n", "t", "(", ")", ")">>,
    \* count(sum("a") > 1)
    <<"c", "o", "u", "n", "t", "(", "s", "u", "m", "(", "\"", "a", "\"", ")", " ", ">", " ", "1", ")">>,
    \* count(max("a") = "a")
    <<"c", "o", "u", "n", "t", "(", "m", "a", "x", "(", "\"", "a", "\"", ")", " ", "=", " ", "\"", "a", "\"", ")">>,
    \* max(min("a"))
    <<"m", "a", "x", "(", "m", "i", "n", "(", "\"", "a", "\"", ")", ")">>,
    \* sum(if("a" > 1, "a", 0))
    <<"s", "u", "m", "(", "i", "f", "(", "\"", "a", "\"", " ", ">", " ", "1", ",", " ", "\"", "a", "\"", ",", " ", "0", ")", ")">>,
    \* unique(count("a"))
    <<"u", "n", "i", "q", "u", "e", "(", "c", "o", "u", "n", "t", "(", "\"", "a", "\"", ")", ")">>,
    \* if(count("a") > 1, max("a"), 'n')
    <<"i", "f", "(", "c", "o", "u", "n", "t", "(", "\"", "a", "\"", ")", " ", ">", " ", "1", ",", " ", "m", "a", "x", "(", "\"", "a", "\"", ")", ",", " ", "'", "n", "'", ")">>,
    \* if("a", count(), sum("a"))
    <<"i", "f", "(", "\"", "a", "\"", ",", " ", "c", "o", "u", "n", "t", "(", ")", ",", " ", "s", "u", "m", "(", "\"", "a", "\"", ")", ")">>,
    \* min("a") || 'x'
    <<"m", "i", "n", "(", "\"", "a", "\"", ")", " ", "|", "|", " ", "'", "x", "'">>,
    \* count() || "a"
    <<"c", "o", "u", "n", "t", "(", ")", " ", "|", "|", " ", "\"", "a", "\"">>,
    \* 'n: ' || count("a" != '') || '/' || count()
    <<"'", "n", ":", " ", "'", " ", "|", "|", " ", "c", "o", "u", "n", "t", "(", "\"", "a", "\"", " ", "!", "=", " ", "'", "'", ")", " ", "|", "|", " ", "'", "/", "'", " ", "|", "|", " ", "c", "o", "u", "n", "t", "(", ")">>,
    \* if(1, 'y', max("a"))
    <<"i", "f", "(", "1", ",", " ", "'", "y", "'", ",", " ", "m", "a", "x", "(", "\"", "a", "\"", ")", ")">>,
    \* if(0, min("a"), 'n')
    <<"i", "f", "(", "0", ",", " ", "m", "i", "n", "(", "\"", "a", "\"", ")", ",", " ", "'", "n", "'", ")">>,
    \* round(sum("a"), 1)
    <<"r", "o", "u", "n", "d", "(", "s", "u", "m", "(", "\"", "a", "\"", ")", ",", " ", "1", ")">>,
    \* sum("a") / count()
    <<"s", "u", "m", "(", "\"", "a", "\"", ")", " ", "/", " ", "c", "o", "u", "n", "t", "(", ")">>,
    \* f(max("a"))
    <<"f", "(", "m", "a", "x", "(", "\"", "a", "\"", ")", ")">>,
    \* count(count(count()))
    <<"c", "o", "u", "n", "t", "(", "c", "o", "u", "n", "t", "(", "c", "o", "u", "n", "t", "(", ")", ")", ")">>,
    \* (max("a"))
    <<"(", "m", "a", "x", "(", "\"", "a", "\"", ")", ")">>,
    \* -min("a")
    <<"-", "m", "i", "n", "(", "\"", "a", "\"", ")">>,
    \* max("a") > "a"
    <<"m", "a", "x", "(", "\"", "a", "\"", ")", " ", ">", " ", "\"", "a", "\"">>
    }

\* expressions whose values are of every type the formatter is given
FormatExprs == {
    \* "a"
    <<"\"", "a", "\"">>,
    \* "b"
    <<"\"", "b", "\"">>,
    \* 1 = 1
    <<"1", " ", "=", " ", "1">>,
    \* 1 = 2
    <<"1", " ", "=", " ", "2">>,
    \* 'x'
    <<"'", "x", "'">>,
    \* ''
    <<"'", "'">>,
    \* ' 1.50 '
    <<"'", " ", "1", ".", "5", "0", " ", "'">>,
    \* 1 + 2
    <<"1", " ", "+", " ", "2">>,
    \* count()
    <<"c", "o", "u", "n", "t", "(", ")">>,
    \* sum("a")
    <<"s", "u", "m", "(", "\"", "a", "\"", ")">>,
    \* 6 / 2
    <<"6", " ", "/", " ", "2">>,
    \* 2.5 * 2
    <<"2", ".", "5", " ", "*", " ", "2">>,
    \* 2.5
    <<"2", ".", "5">>,
    \* 1 / 4
    <<"1", " ", "/", " ", "4">>,
    \* -3
    <<"-", "3">>,
    \* "a" + 0
    <<"\"", "a", "\"", " ", "+", " ", "0">>,
    \* 'inf' + 0
    <<"'", "i", "n", "f", "'", " ", "+", " ", "0">>,
    \* -'inf'
    <<"-", "'", "i", "n", "f", "'">>,
    \* 'nan' * 1
    <<"'", "n", "a", "n", "'", " ", "*", " ", "1">>,
    \* round(2.5)
    <<"r", "o", "u", "n", "d", "(", "2", ".", "5", ")">>,
    \* round(2.567, 2)
    <<"r", "o", "u", "n", "d", "(", "2", ".", "5", "6", "7", ",", " ", "2", ")">>,
    \* unique("a")
    <<"u", "n", "i", "q", "u", "e", "(", "\"", "a", "\"", ")">>,
    \* max("a")
    <<"m", "a", "x", "(", "\"", "a", "\"", ")">>,
    \* "a" || 'x'
    <<"\"", "a", "\"", " ", "|", "|", " ", "'", "x", "'">>,
    \* if(1, "b", 2)
    <<"i", "f", "(", "1", ",", " ", "\"", "b", "\"", ",", " ", "2", ")">>,
    \* 1 / 0
    <<"1", " ", "/", " ", "0">>
    }

\* operands: literals and column references
Atoms == {<<"1">>, <<"0">>, <<"2", ".", "5">>, quoted(<<"x">>), quoted(<<"0">>), ColA, ColB}
FewAtoms == {<<"1">>, <<"0">>, quoted(<<"x">>), ColA}
TextAtoms == {<<"1">>, <<"2", ".", "5">>, quoted(<<"x">>), quoted(<<>>), ColA, ColB}
Comparisons == {parens(<<"1", " ", "=", " ", "1">>), parens(<<"1", " ", "=", " ", "2">>)}

ArithOps == {<<"+">>, <<"-">>, <<"*">>, <<"/">>}
ConcatOp == <<"|", "|">>

\* a op b, a op b op c, with unary minus and with boolean operands
ArithExprs ==
    {binary(a, op, b) : a \in Atoms, op \in ArithOps, b \in Atoms}
    \cup {binary(binary(a, o1, b), o2, c) :
             a \in FewAtoms, o1 \in ArithOps, b \in FewAtoms, o2 \in ArithOps, c \in FewAtoms}
    \cup {<<"-">> \o a : a \in Atoms}
    \cup {binary(<<"-">> \o a, op, b) : a \in FewAtoms, op \in ArithOps, b \in FewAtoms}
    \cup {binary(a, op, <<"-">> \o b) : a \in FewAtoms, op \in ArithOps, b \in FewAtoms}
    \cup {binary(p, op, b) : p \in Comparisons, op \in ArithOps, b \in FewAtoms}
    \cup {binary(a, op, p) : a \in FewAtoms, op \in ArithOps, p \in Comparisons}

\* a || b, a || b || c, (a || b) || c, a || (b || c)
ConcatExprs ==
    {binary(a, ConcatOp, b) : a \in TextAtoms, b \in TextAtoms}
    \cup {binary(binary(a, ConcatOp, b), ConcatOp, c) : a \in TextAtoms, b \in TextAtoms, c \in TextAtoms}
    \cup {binary(parens(binary(a, ConcatOp, b)), ConcatOp, c) : a \in TextAtoms, b \in TextAtoms, c \in TextAtoms}
    \cup {binary(a, ConcatOp, parens(binary(b, ConcatOp, c))) : a \in TextAtoms, b \in TextAtoms, c \in TextAtoms}

\* the rows of the model: dicts over the columns a and b
A == <<"a">>
B == <<"b">>
Rows == {Row(<<>>),
         Row(<<Cell(A, PyInt(1))>>),
         Row(<<Cell(A, PyStr(<<"1">>))>>),
         Row(<<Cell(A, PyStr(<<"x">>))>>),
         Row(<<Cell(A, PyFloat(5, 2)), Cell(B, PyStr(<<"0">>))>>),
         Row(<<Cell(A, None), Cell(B, PyInt(2))>>),
         Row(<<Cell(A, PyStr(<<>>)), Cell(B, PyFloat(4, 1))>>)}

\* the rows the caller passes as the current row; None for no row at all
CurrentRows == {NoRow, Row(<<>>), Row(<<Cell(A, PyInt(1))>>),
                Row(<<Cell(A, PyStr(<<"x">>))>>)}
OperandRows == {NoRow, Row(<<Cell(A, PyInt(1))>>), Row(<<Cell(A, PyStr(<<"x">>))>>),
                Row(<<Cell(A, PyStr(<<"0">>)), Cell(B, PyFloat(5, 2))>>),
                Row(<<Cell(A, None), Cell(B, PyFloat(4, 1))>>)}

\* every list of at most k rows
RECURSIVE lists(_)
lists(k) ==
    IF k = 0 THEN {<<>>}
    ELSE lists(k - 1) \cup {Append(l, r) : l \in {m \in lists(k - 1) : Len(m) = k - 1}, r \in Rows}

\* the tables: None and every list of at most MaxRows rows
Tables == {NoTable} \cup {Table(l) : l \in lists(MaxRows)}

\* a table for the expressions that do not scan it
OneTable == Table(<<Row(<<Cell(A, PyInt(1))>>), Row(<<Cell(A, PyStr(<<"x">>))>>)>>)

Inputs == (LexicalExprs \cup NewlineExprs \cup PlainExprs \cup AggregateExprs \cup NestedExprs \cup {<<>>})
          \X CurrentRows \X Tables

OpsInputs == (ArithExprs \cup ConcatExprs) \X OperandRows \X {OneTable}

(***************************************************************************)
(* The status display of the dock widget                                   *)
(***************************************************************************)
\*   expr    the status expression, _status_expr1
\*   row     the row of the selected table line, as the last call left it
\*   data    the table, _current_merged_data, as the last call left it
\*   result  the text of the label
\*   raised  the exception that left evaluate_row_expr, "" for none
\*   failed  whether the except clause of evaluate_row_expr ran
\*   pc      "idle" before the label was ever computed, "shown" after
\*   call    the arguments of the last call
\*   first   the arguments and the result of the first call, and whether
\*           calls with other arguments were made since
VARIABLES expr, row, data, result, raised, failed, pc, call, first

vars == <<expr, row, data, result, raised, failed, ev, pc, call, first>>

NoCall == [expr |-> <<>>, row |-> NoRow, data |-> NoTable]
NoFirst == [set |-> FALSE, expr |-> <<>>, row |-> NoRow, data |-> NoTable, v |-> <<>>,
            others |-> FALSE]
NoEvaluator == [tokens |-> <<>>, pos |-> 0, trace |-> <<>>]

\* an evaluator with its cursor at p
at(self, p) == [self EXCEPT !.pos = p, !.trace = <<p>>]

\* the widget with a status expression, a table and a selected row, before
\* the label was ever computed
InitOf(inputs) ==
    /\ \E in \in inputs : expr = in[1] /\ row = in[2] /\ data = in[3]
    /\ result = <<>>
    /\ raised = ""
    /\ failed = FALSE
    /\ ev = NoEvaluator
    /\ pc = "idle"
    /\ call = NoCall
    /\ first = NoFirst

\* the label is set to out, what evaluate_row_expr(e, r, data) returned
show_status(e, r, out) ==
    /\ expr' = e
    /\ result' = out.v
    /\ raised' = out.exc
    /\ failed' = out.failed
    /\ ev' = out.ev
    /\ row' = out.row
    /\ data' = out.data
    /\ pc' = "shown"
    /\ call' = [expr |-> e, row |-> r, data |-> data]
    /\ first' = IF first.set
                THEN [first EXCEPT !.others = @ \/ e # first.expr \/ r # first.row
                                                \/ data # first.data]
                ELSE [set |-> TRUE, expr |-> e, row |-> r, data |-> data, v |-> out.v,
                      others |-> FALSE]

\* _update_status_display, the first time
UpdateStatusDisplay ==
    /\ pc = "idle"
    /\ show_status(expr, row, evaluate_row_expr(expr, row, data))

\* _get_selected_row_data for the table line row_idx
_get_selected_row_data(row_idx) ==
    IF row_idx < 0 \/ row_idx >= Len(data_or_empty(data)) THEN Row(<<>>)
    ELSE data_or_empty(data)[row_idx + 1]

\* currentRowChanged: the label is computed again for the line selected
OnCurrentRowChanged ==
    /\ pc = "shown"
    /\ \E row_idx \in -1..(Len(data_or_empty(data)) - 1) :
           show_status(expr, _get_selected_row_data(row_idx),
                       evaluate_row_expr(expr, _get_selected_row_data(row_idx), data))

\* the status expressions the user enters in the dialog
ConfigExprs == {ColA, binary(ColA, ConcatOp, quoted(<<"x">>)),
                <<"c", "o", "u", "n", "t", "(", ")">>,
                cat(<<<<"s", "u", "m", "(">>, ColA, <<")">>>>),
                cat(<<<<"m", "a", "x", "(">>, ColA, <<")">>>>),
                <<"1", ".", "2", ".", "3">>, <<"1", " ", "+">>, <<>>}

\* _on_status_row1_config, the dialog accepted with text
OnStatusRowConfig ==
    /\ pc = "shown"
    /\ \E text \in ConfigExprs : show_status(text, row, evaluate_row_expr(text, row, data))

Init == InitOf(Inputs)
Next == UpdateStatusDisplay
Spec == Init /\ [][Next]_vars

InitOps == InitOf(OpsInputs)
SpecOps == InitOps /\ [][Next]_vars

\* aggregates over every table of a few rows, for every current row
AggRows == {Row(<<>>), Row(<<Cell(A, PyInt(1))>>), Row(<<Cell(A, PyStr(<<"x">>))>>),
            Row(<<Cell(A, PyFloat(5, 2)), Cell(B, PyStr(<<"0">>))>>)}
RECURSIVE agg_lists(_)
agg_lists(k) ==
    IF k = 0 THEN {<<>>}
    ELSE agg_lists(k - 1)
         \cup {Append(l, r) : l \in {m \in agg_lists(k - 1) : Len(m) = k - 1}, r \in AggRows}
AggInputs == (AggregateExprs \cup NestedExprs) \X CurrentRows
             \X {Table(l) : l \in agg_lists(MaxRows)}
InitAgg == InitOf(AggInputs)
SpecAgg == InitAgg /\ [][Next]_vars

\* the tables of the repeated evaluations
CallTables == {Table(<<>>), OneTable,
               Table(<<Row(<<Cell(A, PyInt(1))>>), Row(<<Cell(A, PyFloat(5, 2))>>)>>)}

\* the status row over time: the line selected and the expression change,
\* and the label is computed again each time
InitCalls == InitOf(ConfigExprs \X {Row(<<>>), Row(<<Cell(A, PyInt(1))>>)} \X CallTables)
NextCalls == UpdateStatusDisplay \/ OnCurrentRowChanged \/ OnStatusRowConfig
SpecCalls == InitCalls /\ [][NextCalls]_vars

\* the operands of comparisons: numbers, numeric and other text, columns, a
\* boolean and the float -inf
CmpAtoms == {<<"1", "0">>, <<"9">>, <<"2", ".", "5">>, quoted(<<"1", "0">>), quoted(<<"9">>),
             quoted(<<"x">>), quoted(<<>>), ColA, ColB, <<"-">> \o quoted(<<"i", "n", "f">>),
             parens(<<"1", " ", "=", " ", "1">>)}

\* a op b for every comparison operator
CompareExprs == {binary(a, op, b) : a \in CmpAtoms, op \in CompareOps, b \in CmpAtoms}

InitCmp == InitOf(CompareExprs \X OperandRows \X {OneTable})
SpecCmp == InitCmp /\ [][Next]_vars

\* if(c, t, f)
iff(c, t, f) == cat(<<<<"i", "f", "(">>, c, <<",", " ">>, t, <<",", " ">>, f, <<")">>>>)

\* name(e), a function call with one argument
fn(name, e) == cat(<<name, <<"(">>, e, <<")">>>>)

\* conditions of every type and truth value, branches that are literals and
\* columns, and branches holding a min or max over the table
IfConds == {<<"0">>, <<"1">>, <<"2", ".", "5">>, quoted(<<"0">>), quoted(<<>>), quoted(<<"x">>),
            ColA, ColB, parens(<<"1", " ", "=", " ", "1">>), parens(<<"1", " ", "=", " ", "2">>)}
IfBranches == {quoted(<<"y">>), quoted(<<"n">>), ColB, <<"2">>}
ScanBranches == {fn(<<"m", "a", "x">>, ColA), fn(<<"m", "i", "n">>, ColA)}
IfExprs == {iff(c, t, f) : c \in IfConds, t \in IfBranches \cup ScanBranches,
                           f \in IfBranches \cup ScanBranches}

\* an empty table, a table of numbers and text, and a table of numbers
IfTables == {Table(<<>>), OneTable,
             Table(<<Row(<<Cell(A, PyInt(1))>>), Row(<<Cell(A, PyFloat(5, 2))>>)>>)}

InitIf == InitOf(IfExprs \X OperandRows \X IfTables)
SpecIf == InitIf /\ [][Next]_vars

\* the arguments of aggregates: a column, a comparison, a sum and literals
FnArgs == {ColA, ColB, binary(ColA, <<">">>, <<"1">>), binary(ColA, <<"+">>, <<"1">>),
           <<"1">>, quoted(<<>>)}
FnNames == {<<"c", "o", "u", "n", "t">>, <<"s", "u", "m">>, <<"m", "i", "n">>,
            <<"m", "a", "x">>, <<"u", "n", "i", "q", "u", "e">>}

\* one aggregate call, count() and a column reference alone
FnExprs == {fn(name, e) : name \in FnNames, e \in FnArgs}
           \cup {<<"c", "o", "u", "n", "t", "(", ")">>, ColA, ColB}

\* rows holding the number 1 as an int, as a float and as text, other text,
\* a fraction, an empty text and None
FnRows == {Row(<<>>),
           Row(<<Cell(A, PyInt(1))>>),
           Row(<<Cell(A, PyStr(<<"1">>))>>),
           Row(<<Cell(A, PyStr(<<"x">>))>>),
           Row(<<Cell(A, PyFloat(5, 2)), Cell(B, PyStr(<<"0">>))>>),
           Row(<<Cell(A, PyFloat(1, 1)), Cell(B, PyStr(<<>>))>>),
           Row(<<Cell(A, None), Cell(B, PyInt(2))>>)}
RECURSIVE fn_lists(_)
fn_lists(k) ==
    IF k = 0 THEN {<<>>}
    ELSE fn_lists(k - 1)
         \cup {Append(l, r) : l \in {m \in fn_lists(k - 1) : Len(m) = k - 1}, r \in FnRows}
FnTables == {NoTable} \cup {Table(l) : l \in fn_lists(MaxRows)}
FnCurrentRows == {NoRow, Row(<<>>), Row(<<Cell(A, PyStr(<<"x">>)), Cell(B, PyInt(2))>>)}

InitFn == InitOf(FnExprs \X FnCurrentRows \X FnTables)
SpecFn == InitFn /\ [][Next]_vars

\* rows and tables whose cells hold an int, floats, a bool, text and the text
\* of a float that is not finite
FormatRows == {NoRow, Row(<<Cell(A, PyInt(1))>>),
               Row(<<Cell(A, PyFloat(5, 2)), Cell(B, PyStr(<<"x">>))>>),
               Row(<<Cell(A, PyFloat(4, 1)), Cell(B, PyBool(TRUE))>>),
               Row(<<Cell(A, PyStr(<<"i", "n", "f">>))>>)}
FormatTables == {Table(<<>>),
                 Table(<<Row(<<Cell(A, PyInt(1))>>), Row(<<Cell(A, PyFloat(5, 2))>>)>>),
                 Table(<<Row(<<Cell(A, PyFloat(3, 2))>>), Row(<<Cell(A, PyStr(<<"2", ".", "5">>))>>)>>),
                 Table(<<Row(<<Cell(A, PyStr(<<"i", "n", "f">>))>>), Row(<<Cell(A, PyInt(1))>>)>>)}

InitFormat == InitOf(FormatExprs \X FormatRows \X FormatTables)
SpecFormat == InitFormat /\ [][Next]_vars

\* numeric literals: integers for + - *, powers of two where / is among the
\* operators, so that every quotient is a float the division computes exactly
IntLeaves == {<<"1", "0">>, <<"3">>, <<"2">>}
DyadicLeaves == {<<"8">>, <<"4">>, <<"2">>}
NoDivOps == {<<"+">>, <<"-">>, <<"*">>, <<">">>, <<"=">>, ConcatOp}
AllOps == NoDivOps \cup {<<"/">>}

\* pairs of operators of which at most one is a comparison
op_pairs(ops) == {p \in ops \X ops : ~(p[1] \in CompareOps /\ p[2] \in CompareOps)}

\* the pairs for a o1 (b o2 c): no sum, difference or joined text as a
\* divisor, so that the divisor is a power of two, 0 or 1
group_pairs(ops) ==
    {p \in op_pairs(ops) : p[1] = <<"/">> => p[2] \in {<<"*">>, <<"/">>, <<">">>, <<"=">>}}

\* a o1 b o2 c, (a o1 b) o2 c and a o1 (b o2 c)
three(leaves, ops) ==
    {binary(binary(a, p[1], b), p[2], c) : a \in leaves, b \in leaves, c \in leaves, p \in op_pairs(ops)}
    \cup {binary(parens(binary(a, p[1], b)), p[2], c) :
             a \in leaves, b \in leaves, c \in leaves, p \in op_pairs(ops)}
    \cup {binary(a, p[1], parens(binary(b, p[2], c))) :
             a \in leaves, b \in leaves, c \in leaves, p \in group_pairs(ops)}

\* a o1 b o2 c o3 d over the arithmetic operators
four(leaves) ==
    {binary(binary(binary(a, o1, b), o2, c), o3, d) :
        a \in leaves, b \in leaves, c \in leaves, d \in leaves,
        o1 \in ArithOps, o2 \in ArithOps, o3 \in ArithOps}

\* unary minus before an operand, before a group and before another minus
negations(leaves, ops) ==
    {<<"-">> \o a : a \in leaves}
    \cup {<<"-", " ", "-">> \o a : a \in leaves}
    \cup {binary(<<"-">> \o a, op, b) : a \in leaves, op \in ops, b \in leaves}
    \cup {binary(a, op, <<"-">> \o b) : a \in leaves, op \in ops, b \in leaves}
    \cup {<<"-">> \o parens(binary(a, op, b)) : a \in leaves, op \in ops, b \in leaves}
    \cup {binary(<<"-">> \o parens(binary(a, o1, b)), o2, c) :
             a \in leaves, o1 \in ops \cap ArithOps, b \in leaves, o2 \in ops \cap ArithOps,
             c \in leaves}

PrecExprs == three(IntLeaves, NoDivOps) \cup three(DyadicLeaves, AllOps)
             \cup four(DyadicLeaves) \cup negations(DyadicLeaves, AllOps)
             \cup negations(IntLeaves, NoDivOps)

InitPrec == InitOf(PrecExprs \X {NoRow} \X {OneTable})
SpecPrec == InitPrec /\ [][Next]_vars

\* x op1 y op2 z and (x op1 y) op2 z over comparison operators
ChainLeaves == {<<"1">>, <<"2">>, <<"3">>, ColA}
ChainOps == {<<"=">>, <<"!", "=">>, <<"<">>, <<">", "=">>}
ChainFlat ==
    {binary(binary(x, o1, y), o2, z) :
        x \in ChainLeaves, y \in ChainLeaves, z \in ChainLeaves, o1 \in ChainOps, o2 \in ChainOps}
ChainGrouped ==
    {binary(parens(binary(x, o1, y)), o2, z) :
        x \in ChainLeaves, y \in ChainLeaves, z \in ChainLeaves, o1 \in ChainOps, o2 \in ChainOps}
ChainExprs == ChainFlat \cup ChainGrouped

\* an aggregate call whose argument holds parentheses, followed by nothing or
\* by a token that no operator joins to it
CallArgs == {ColA, parens(ColA), parens(parens(ColA)),
             binary(ColA, <<"+">>, parens(<<"1">>)),
             binary(parens(binary(ColA, <<"+">>, <<"1">>)), <<"*">>, parens(<<"2">>)),
             ColA \o <<" ", "1">>}
Leftovers == {<<>>, <<" ", "5">>, <<" ", ")">>}
AggCallExprs == {fn(name, e) \o s : name \in {<<"c", "o", "u", "n", "t">>, <<"s", "u", "m">>},
                                    e \in CallArgs, s \in Leftovers}

\* calls of identifiers that name no function, alone and joined to a text;
\* identifiers without a call; the functions spelled with capitals
UnknownNames == {<<"f">>, <<"F", "o", "o">>, <<"s", "u", "m", "s">>, <<"x", "_", "1">>}
UnknownArgs == {<<>>, <<"1">>, <<"1", ",", " ", "(", "2", ")">>,
                binary(parens(ColA), ConcatOp, quoted(<<"y">>)),
                <<"(", "(", "1", ")", ")", ",", " ", "2">>,
                fn(<<"d">>, <<"1">>)}
JoinedText == <<" ">> \o ConcatOp \o <<" ">> \o quoted(<<"x">>)
UnknownCalls == {fn(name, e) : name \in UnknownNames, e \in UnknownArgs}
UnknownJoined == {c \o JoinedText : c \in UnknownCalls}
BareNames == UnknownNames \cup {name \o JoinedText : name \in UnknownNames}
             \cup {name \o <<" ", "1">> : name \in UnknownNames}
CapitalCalls == {cat(<<<<"I", "F", "(">>, ColA, <<",", " ">>, quoted(<<"y">>), <<",", " ">>,
                       quoted(<<"n">>), <<")">>>>),
                 fn(<<"S", "u", "m">>, ColA), <<"C", "O", "U", "N", "T", "(", ")">>,
                 fn(<<"r", "O", "U", "N", "d">>, <<"2", ".", "5">>),
                 fn(<<"U", "N", "I", "q", "U", "e">>, ColA), fn(<<"M", "I", "N">>, ColA)}
UnknownExprs == UnknownCalls \cup UnknownJoined \cup BareNames \cup CapitalCalls

\* well-formed expressions that end with the closing parenthesis of a group,
\* an if, a round, an aggregate or an unknown function
ClosedExprs == {fn(name, <<>>) : name \in FnNames \cup {<<"r", "o", "u", "n", "d">>, <<"i", "f">>, <<"f">>}}
               \cup {fn(name, e) : name \in FnNames \cup {<<"r", "o", "u", "n", "d">>, <<"f">>},
                                   e \in {ColA, parens(ColA), binary(parens(ColA), <<"+">>, parens(<<"1">>))}}
               \cup {parens(binary(<<"1">>, <<"+">>, ColA)),
                     parens(binary(parens(binary(<<"1">>, <<"+">>, <<"2">>)), <<"*">>, <<"3">>)),
                     binary(<<"1">>, <<"+">>, parens(ColA)),
                     binary(quoted(<<"y">>), ConcatOp, parens(ColA)),
                     <<"-">> \o parens(ColA),
                     iff(ColA, quoted(<<"y">>), quoted(<<"n">>)),
                     iff(<<"1">>, parens(<<"2">>), parens(ColA)),
                     iff(<<"0">>, quoted(<<"y">>), fn(<<"s", "u", "m">>, ColA)),
                     iff(<<"c", "o", "u", "n", "t", "(", ")">>, <<"1">>, <<"2">>),
                     fn(<<"r", "o", "u", "n", "d">>, <<"2", ".", "5", ",", " ", "0">>),
                     fn(<<"r", "o", "u", "n", "d">>, fn(<<"s", "u", "m">>, ColA)),
                     fn(<<"c", "o", "u", "n", "t">>, binary(ColA, <<"=">>, <<"1">>))}

\* an if, a round and a group with a missing argument or operand, joined to
\* the text 'z'
MissingConstructs == {<<"i", "f", "(", "1", ",", " ">> \o quoted(<<"a">>) \o <<")">>,
                      <<"i", "f", "(", "0", ",", " ">> \o quoted(<<"a">>) \o <<")">>,
                      <<"i", "f", "(">> \o ColA \o <<",", " ">> \o quoted(<<"y">>) \o <<")">>,
                      <<"i", "f", "(", "1", ")">>, <<"i", "f", "(", ")">>,
                      <<"r", "o", "u", "n", "d", "(", "2", ".", "4", ",", " ", ")">>,
                      <<"r", "o", "u", "n", "d", "(", ")">>,
                      <<"r", "o", "u", "n", "d", "(", ",", ")">>,
                      <<"(", " ", ")">>, <<"(", "1", " ", "+", " ", ")">>,
                      <<"(">> \o ColA \o <<" ", "*", " ", ")">>}
JoinedZ == <<" ">> \o ConcatOp \o <<" ">> \o quoted(<<"z">>)
MissingJoined == {c \o JoinedZ : c \in MissingConstructs}

\* the expression without the closing parentheses (and blanks) it ends with
RECURSIVE unclosed(_)
unclosed(e) ==
    IF e # <<>> /\ e[Len(e)] \in {")", " "} THEN unclosed(SubSeq(e, 1, Len(e) - 1)) ELSE e

\* the well-formed expressions without their last closing parentheses
OpenExprs == {unclosed(e) : e \in ClosedExprs}

\* round with one and with two arguments: values that are numbers, texts of
\* numbers, other texts, booleans, columns, inf and nan; digit counts of the
\* same kinds, negative and fractional
RoundValues == {<<"2", ".", "5">>, <<"3", ".", "5">>, <<"2", "5">>, <<"0", ".", "1", "2", "5">>,
                <<"-", "2", ".", "5">>, quoted(<<"2", ".", "5">>), quoted(<<"x">>), quoted(<<>>),
                ColA, ColB, parens(<<"1", " ", "=", " ", "1">>), quoted(<<"i", "n", "f">>),
                <<"-">> \o quoted(<<"i", "n", "f">>), quoted(<<"n", "a", "n">>)}
RoundDigits == {quoted(<<>>), ColB, quoted(<<"x">>), <<"0">>, <<"1">>, <<"2">>, <<"-", "1">>,
                <<"1", ".", "9">>, quoted(<<"1">>), parens(<<"1", " ", "=", " ", "1">>),
                quoted(<<"i", "n", "f">>), quoted(<<"n", "a", "n">>)}
round_of(v) == fn(<<"r", "o", "u", "n", "d">>, v)
round_to(v, d) == fn(<<"r", "o", "u", "n", "d">>, v \o <<",", " ">> \o d)
RoundExprs == {round_of(v) : v \in RoundValues}
              \cup {round_to(v, d) : v \in RoundValues, d \in RoundDigits}

\* complete expressions followed by tokens that no operator joins to them,
\* and aggregates whose argument is followed by such tokens
TrailPrefixes == {<<"1">>, quoted(<<"x">>), ColA, <<"-", "2">>, binary(<<"1">>, <<"+">>, <<"2">>),
                  parens(binary(<<"1">>, <<"+">>, ColA)), binary(ColA, ConcatOp, quoted(<<"x">>)),
                  binary(<<"1">>, <<"=">>, ColA), fn(<<"s", "u", "m">>, ColA),
                  <<"c", "o", "u", "n", "t", "(", ")">>,
                  iff(ColA, quoted(<<"y">>), quoted(<<"n">>)),
                  fn(<<"r", "o", "u", "n", "d">>, <<"2", ".", "5">>)}
InnerSuffixes == {<<" ", "2">>, <<" ", ",">>, <<" ">> \o quoted(<<"z">>), <<" ">> \o ColB,
                  <<" ", ",", " ", "5">>}
TrailSuffixes == InnerSuffixes \cup {<<" ", ")">>, <<" ", ")", " ", "+", " ", "1">>,
                                     <<" ", "(", "2", ")">>}
TrailExprs == {p \o s : p \in TrailPrefixes, s \in TrailSuffixes}
TrailArgs == {ColA, binary(ColA, <<"+">>, <<"1">>), binary(ColA, <<"=">>, <<"1">>), parens(ColA)}
TrailCalls == {fn(name, p \o s) : name \in {<<"s", "u", "m">>, <<"c", "o", "u", "n", "t">>,
                                            <<"u", "n", "i", "q", "u", "e">>},
                                  p \in TrailArgs, s \in InnerSuffixes}

\* the rows and tables of the expressions above
ParseRows == {NoRow, Row(<<Cell(A, PyInt(1))>>),
              Row(<<Cell(A, PyStr(<<"x">>)), Cell(B, PyFloat(5, 2))>>)}
ParseTables == {Table(<<>>), OneTable,
                Table(<<Row(<<Cell(A, PyInt(1))>>), Row(<<Cell(A, PyFloat(5, 2))>>)>>)}
ParseExprs == ChainExprs \cup AggCallExprs \cup UnknownExprs \cup ClosedExprs \cup MissingJoined
              \cup OpenExprs \cup RoundExprs
              \cup TrailExprs \cup TrailCalls

InitParse == InitOf(ParseExprs \X ParseRows \X ParseTables)
SpecParse == InitParse /\ [][Next]_vars

\* the label is computed once the table is loaded: the slot is called when
\* control returns to the event loop.  Displayed is the step of
\* _update_status_display as pc sees it.
LiveExprs == AggCallExprs \cup OpenExprs \cup MissingJoined
InitLive == InitOf(LiveExprs \X ParseRows \X ParseTables)
Displayed == pc = "idle" /\ pc' = "shown"
SpecLive == InitLive /\ [][Next]_vars /\ WF_pc(Displayed)

(***************************************************************************)
(* The contract of evaluate_row_expr                                       *)
(***************************************************************************)
\* a Python str of the model: a sequence of its characters
is_string(s) == \A i \in 1..Len(s) : \E j \in 1..Len(CodePoints) : CodePoints[j] = s[i]

\* a table with a numeric and a non-numeric text cell in column a
mixed_table(rows) ==
    /\ \E i \in 1..Len(rows) : float(dict_get(rows[i].cells, A)).exc = ""
    /\ \E i \in 1..Len(rows) : LET v == dict_get(rows[i].cells, A)
                               IN  v.t = "str" /\ v.s # <<>> /\ float(v).exc # ""

\* C1: for every expression, current row and table, evaluate_row_expr returns
\* a string and no exception reaches its caller.
C1_AlwaysReturnsString == pc = "shown" => raised = "" /\ is_string(result)

\* an evaluation that failed inside the evaluator, over a table of mixed
\* numeric and text cells, and still returned a string
C1_Witness ==
    /\ pc = "shown" /\ failed /\ raised = ""
    /\ ev.tokens # <<>>
    /\ mixed_table(data.rows)

\* C2: when the evaluation fails, the string returned is the expression
\* exactly as the caller passed it, line breaks included.
C2_FallbackIsVerbatim == pc = "shown" /\ failed => result = call.expr

\* C3: the tokenizer returns a token sequence for every input string.
C3_TokenizerNeverFails == _tokenize(expr).exc = ""

\* C5: an evaluation leaves the current row and every row of the table as
\* they were before the call.
C5_RowAndTableUnchanged == [][UpdateStatusDisplay => row' = row /\ data' = data]_vars

\* an evaluation of nested aggregates over a full table has returned
C5_Witness ==
    /\ pc = "shown" /\ ~failed
    /\ expr \in NestedExprs
    /\ ~row.none /\ row.cells # <<>>
    /\ Len(data.rows) = MaxRows

aggregate_calls(tokens) ==
    {p \in 1..(Len(tokens) - 1) :
        /\ tokens[p].k = "IDENT" /\ lower(tokens[p].v.s) \in AggregateNames
        /\ tokens[p + 1].k = "LPAREN"}

\* the tokens of an expression, none when the tokenizer raises
tokens_of(e) ==
    LET r == _tokenize(replace(replace(e, "\n", <<" ">>), "\r", <<>>))
    IN  IF r.exc = "" THEN r.v ELSE <<>>

\* C6: an expression without an aggregate call gives, for a row, the result
\* it gives with no table and with the empty table, whatever the table is.
C6_TableIndependent ==
    pc = "shown" /\ aggregate_calls(tokens_of(call.expr)) = {}
        => /\ result = evaluate_row_expr(call.expr, call.row, NoTable).v
           /\ result = evaluate_row_expr(call.expr, call.row, Table(<<>>)).v

\* a column of the row was shown over a full table whose first row is another
C6_Witness ==
    /\ pc = "shown" /\ ~failed /\ result # <<>>
    /\ aggregate_calls(tokens_of(call.expr)) = {}
    /\ \E p \in 1..Len(ev.tokens) : ev.tokens[p].k = "COL"
    /\ ~call.row.none /\ call.row.cells # <<>>
    /\ Len(call.data.rows) = MaxRows /\ call.data.rows[1] # call.row

\* the aggregate call at position p of the tokens, made by an evaluator whose
\* current row is r: the value returned and the exception raised
aggregate_at(tokens, p, r, rows) ==
    LET out == _parse_aggregate(at(_Evaluator(tokens, rows, r), p + 1),
                                lower(tokens[p].v.s))
    IN  [v |-> out.v, exc |-> out.exc]

\* C7: every aggregate call of the expression, at top level, in an argument
\* of if or in the argument of another aggregate, returns the same value for
\* every current row of the evaluator that makes the call.
C7_AggregateIgnoresRow ==
    pc = "shown"
        => \A p \in aggregate_calls(tokens_of(call.expr)) : \A r \in AggRows \cup {NoRow} :
               aggregate_at(tokens_of(call.expr), p, r, call.data.rows)
                   = aggregate_at(tokens_of(call.expr), p, call.row, call.data.rows)

\* an aggregate inside another call was evaluated for a row with cells over a
\* full table of rows that differ
C7_Witness ==
    /\ pc = "shown" /\ ~failed /\ result # <<>>
    /\ \E p \in aggregate_calls(tokens_of(call.expr)) : p > 1
    /\ ~call.row.none /\ call.row.cells # <<>>
    /\ Len(call.data.rows) = MaxRows /\ call.data.rows[1] # call.data.rows[MaxRows]


(***************************************************************************)
(* Arithmetic and concatenation                                            *)
(***************************************************************************)
\* the value of a literal or column operand for the row r
atom_value(x, r) ==
    IF x = <<"1">> THEN PyFloat(1, 1)
    ELSE IF x = <<"0">> THEN PyFloat(0, 1)
    ELSE IF x = <<"2", ".", "5">> THEN PyFloat(5, 2)
    ELSE IF x = parens(<<"1", " ", "=", " ", "1">>) THEN PyBool(TRUE)
    ELSE IF x = parens(<<"1", " ", "=", " ", "2">>) THEN PyBool(FALSE)
    ELSE IF Head(x) = "'" THEN PyStr(SubSeq(x, 2, Len(x) - 1))
    ELSE IF r.none THEN None
    ELSE dict_get(r.cells, SubSeq(x, 2, Len(x) - 1))

\* the number a value coerces to: numbers, booleans and numeric text coerce,
\* absent and other text do not (None)
number(v) == IF float(v).exc = "" THEN float(v).v ELSE None

\* the value of an operand, negated when a minus sign stands before it
operand_value(x, r) ==
    IF Head(x) = "-"
    THEN IF number(atom_value(Tail(x), r)) = None THEN None
         ELSE f_neg(number(atom_value(Tail(x), r)))
    ELSE atom_value(x, r)

\* the text the formatter makes of a value
formatted(v) == _format(v).v

zero(v) == number(v) # None /\ number(v).n = 0

\* x op y as the contract has it: absent unless both operands coerce and the
\* divisor is not zero
arith(op, x, y) ==
    IF number(x) = None \/ number(y) = None THEN None
    ELSE IF op = <<"+">> THEN f_add(number(x), number(y))
    ELSE IF op = <<"-">> THEN f_sub(number(x), number(y))
    ELSE IF op = <<"*">> THEN f_mul(number(x), number(y))
    ELSE IF number(y).n = 0 THEN None
    ELSE f_div(number(x), number(y))

\* x o1 y o2 z: * and / bind tighter than + and -, equal levels go left to right
chain(o1, o2, x, y, z) ==
    IF o1 \in {<<"+">>, <<"-">>} /\ o2 \in {<<"*">>, <<"/">>}
    THEN arith(o1, x, arith(o2, y, z))
    ELSE arith(o2, arith(o1, x, y), z)

Operands == Atoms \cup {<<"-">> \o a : a \in Atoms} \cup Comparisons

\* C8: a quotient whose divisor coerces to zero is absent: the label is empty
\* and nothing was raised; so is every arithmetic result the quotient is an
\* operand of.
C8_DivisionByZeroIsAbsent ==
    pc = "shown" =>
        /\ \A a, b \in Operands :
               call.expr = binary(a, <<"/">>, b) /\ zero(operand_value(b, call.row))
                   => result = <<>> /\ raised = "" /\ ~failed
        /\ \A a, b, c \in FewAtoms : \A op \in ArithOps :
               /\ call.expr = binary(binary(a, <<"/">>, b), op, c)
                      /\ zero(operand_value(b, call.row))
                      => result = <<>> /\ raised = "" /\ ~failed
               /\ call.expr = binary(binary(a, op, b), <<"/">>, c)
                      /\ zero(operand_value(c, call.row))
                      => result = <<>> /\ raised = "" /\ ~failed

\* a quotient by a column holding the text '0' was an operand of a further
\* operator
C8_Witness ==
    /\ pc = "shown" /\ result = <<>>
    /\ \E a, c \in FewAtoms : \E op \in ArithOps :
           call.expr = binary(binary(a, <<"/">>, ColA), op, c)
    /\ ~call.row.none /\ dict_get(call.row.cells, A) = PyStr(<<"0">>)

\* C9: an arithmetic operation with an operand that does not coerce is
\* absent, nothing is raised, and the operators after it in the chain are
\* absent too; when the operands coerce the label shows the numeric result.
C9_ArithmeticCoercion ==
    pc = "shown" =>
        /\ \A a, b \in Operands : \A op \in ArithOps :
               call.expr = binary(a, op, b) =>
                   /\ raised = "" /\ ~failed
                   /\ result = formatted(arith(op, operand_value(a, call.row),
                                             operand_value(b, call.row)))
                   /\ number(operand_value(a, call.row)) = None
                          \/ number(operand_value(b, call.row)) = None => result = <<>>
        /\ \A a, b, c \in FewAtoms : \A o1, o2 \in ArithOps :
               call.expr = binary(binary(a, o1, b), o2, c) =>
                   /\ raised = "" /\ ~failed
                   /\ result = formatted(chain(o1, o2, operand_value(a, call.row),
                                             operand_value(b, call.row),
                                             operand_value(c, call.row)))
                   /\ \E x \in {a, b, c} : number(operand_value(x, call.row)) = None
                          => result = <<>>
        /\ \A a \in Atoms :
               call.expr = <<"-">> \o a =>
                   /\ raised = "" /\ ~failed
                   /\ result = formatted(operand_value(<<"-">> \o a, call.row))

\* a chain whose first operand is a column holding text that is no number
C9_Witness ==
    /\ pc = "shown" /\ result = <<>>
    /\ \E b, c \in FewAtoms : \E o1, o2 \in ArithOps :
           /\ call.expr = binary(binary(ColA, o1, b), o2, c)
           /\ number(operand_value(b, call.row)) # None
           /\ number(operand_value(c, call.row)) # None
    /\ ~call.row.none /\ dict_get(call.row.cells, A) = PyStr(<<"x">>)

\* the text rendering of an operand of ||
rendering(v) ==
    IF v = None THEN <<>>
    ELSE IF v.t = "str" THEN v.s
    ELSE IF v.d = 1 THEN int_str(v.n)
    ELSE str(v)

\* the value of the whole expression of the last call
top_value ==
    parse_concat(_Evaluator(tokens_of(call.expr), data_or_empty(call.data), call.row)).v

\* C10: a concatenation is the renderings of its operands joined in order,
\* however it is parenthesised, and its value is text.
C10_ConcatJoinsRenderings ==
    pc = "shown" =>
        /\ \A a, b \in TextAtoms :
               call.expr = binary(a, ConcatOp, b) =>
                   /\ result = rendering(atom_value(a, call.row))
                                   \o rendering(atom_value(b, call.row))
                   /\ top_value.t = "str"
        /\ \A a, b, c \in TextAtoms :
               call.expr \in {binary(binary(a, ConcatOp, b), ConcatOp, c),
                              binary(parens(binary(a, ConcatOp, b)), ConcatOp, c),
                              binary(a, ConcatOp, parens(binary(b, ConcatOp, c)))} =>
                   /\ result = rendering(atom_value(a, call.row))
                                   \o rendering(atom_value(b, call.row))
                                   \o rendering(atom_value(c, call.row))
                   /\ top_value.t = "str"

\* an absent column, the float 4.0 and a text were joined, the last two in
\* parentheses
C10_Witness ==
    /\ pc = "shown" /\ result = <<"4", "x">>
    /\ call.expr = binary(ColA, ConcatOp, parens(binary(ColB, ConcatOp, quoted(<<"x">>))))
    /\ ~call.row.none /\ dict_get(call.row.cells, A) = None
    /\ dict_get(call.row.cells, B) = PyFloat(4, 1)

(***************************************************************************)
(* Comparison                                                              *)
(***************************************************************************)
\* the value of an operand of a comparison for the row r
cmp_value(x, r) ==
    IF isdigit(Head(x)) THEN float(PyStr(x)).v
    ELSE IF Head(x) = "-" THEN f_neg(float(atom_value(Tail(x), r)).v)
    ELSE atom_value(x, r)

\* the text rendering of a value: a boolean renders as its literal
text_of(v) == IF v # None /\ v.t = "bool" THEN str(v) ELSE rendering(v)

\* x op y as the contract has it: numeric when both sides coerce to
\* numbers, else by the text renderings
compared(op, x, y) ==
    LET numeric == number(x) # None /\ number(y) # None
        lt == IF numeric THEN num_lt(number(x), number(y)) ELSE str_lt(text_of(x), text_of(y))
        gt == IF numeric THEN num_lt(number(y), number(x)) ELSE str_lt(text_of(y), text_of(x))
        eq == IF numeric THEN num_eq(number(x), number(y)) ELSE text_of(x) = text_of(y)
    IN  CASE op = <<"=">> -> eq
          [] op = <<"!", "=">> -> ~eq
          [] op = <<">">> -> gt
          [] op = <<"<">> -> lt
          [] op = <<">", "=">> -> gt \/ eq
          [] op = <<"<", "=">> -> lt \/ eq

\* C11: a comparison is numeric when both sides coerce to numbers and is a
\* comparison of the text renderings otherwise; its value is a boolean and
\* no pair of operand values makes it raise.
C11_ComparisonIsTotal ==
    pc = "shown" =>
        \A a, b \in CmpAtoms : \A op \in CompareOps :
            call.expr = binary(a, op, b) =>
                /\ raised = "" /\ ~failed
                /\ top_value.t = "bool"
                /\ result = str(PyBool(compared(op, cmp_value(a, call.row),
                                                cmp_value(b, call.row))))

(***************************************************************************)
(* if                                                                      *)
(***************************************************************************)
\* truthiness as the contract has it: absent is false, a boolean is itself,
\* a number is true iff it is not zero, text is true iff it is not empty
truthy(v) ==
    IF v = None THEN FALSE
    ELSE IF v.t = "str" THEN v.s # <<>>
    ELSE v.n # 0

\* C12: if(cond, whenTrue, whenFalse) is the value of whenTrue when cond is
\* truthy and the value of whenFalse otherwise; absent is false, a boolean is
\* itself, a number is true iff nonzero and text is true iff non-empty.
C12_IfSelectsByTruthiness ==
    pc = "shown" =>
        \A c \in IfConds : \A t, f \in IfBranches :
            call.expr = iff(c, t, f) =>
                /\ raised = "" /\ ~failed
                /\ result = formatted(cmp_value(IF truthy(cmp_value(c, call.row)) THEN t ELSE f,
                                                call.row))

\* the text '0' was the condition, and whenTrue was returned
C12_Witness ==
    /\ pc = "shown" /\ result = <<"y">>
    /\ call.expr = iff(quoted(<<"0">>), quoted(<<"y">>), quoted(<<"n">>))

\* C13: the result of if(cond, whenTrue, whenFalse) is the value of the
\* selected branch whatever the other branch holds, a min or max over rows
\* of numbers and text included.
C13_UnselectedBranchIgnored ==
    pc = "shown" =>
        \A c \in IfConds : \A s \in IfBranches : \A o \in IfBranches \cup ScanBranches :
            call.expr = (IF truthy(cmp_value(c, call.row)) THEN iff(c, s, o) ELSE iff(c, o, s)) =>
                /\ raised = "" /\ ~failed
                /\ result = formatted(cmp_value(s, call.row))

(***************************************************************************)
(* Aggregates                                                              *)
(***************************************************************************)
\* the value of an aggregate argument for the row r, as the contract has it
arg_value(e, r) ==
    IF e = binary(ColA, <<">">>, <<"1">>)
    THEN PyBool(compared(<<">">>, atom_value(ColA, r), PyFloat(1, 1)))
    ELSE IF e = binary(ColA, <<"+">>, <<"1">>)
    THEN arith(<<"+">>, atom_value(ColA, r), PyFloat(1, 1))
    ELSE atom_value(e, r)

\* the values of e over the rows of the table of the last call
arg_values(e) ==
    [i \in 1..Len(data_or_empty(call.data)) |-> arg_value(e, data_or_empty(call.data)[i])]

\* C14: count() is the number of rows of the table, 0 for an empty or missing
\* table; count(E) is the number of rows for which E is truthy, and lies
\* between 0 and count().
C14_CountCountsTruthyRows ==
    pc = "shown" =>
        /\ call.expr = <<"c", "o", "u", "n", "t", "(", ")">> =>
               /\ raised = "" /\ ~failed
               /\ result = int_str(Len(data_or_empty(call.data)))
               /\ call.data.none \/ call.data.rows = <<>> => result = <<"0">>
        /\ \A e \in FnArgs :
               call.expr = fn(<<"c", "o", "u", "n", "t">>, e) =>
                   /\ raised = "" /\ ~failed
                   /\ result = int_str(Cardinality({i \in DOMAIN arg_values(e) :
                                                       truthy(arg_values(e)[i])}))
                   /\ top_value.t = "int" /\ top_value.n >= 0
                   /\ top_value.n <= Len(data_or_empty(call.data))

\* a count over two rows, of which one has a truthy value
C14_Witness ==
    /\ pc = "shown" /\ result = <<"1">>
    /\ call.expr = fn(<<"c", "o", "u", "n", "t">>, ColA)
    /\ Len(data_or_empty(call.data)) = 2

\* the sum of the numbers the values coerce to; the others count as 0
RECURSIVE total(_)
total(values) ==
    IF values = <<>> THEN PyFloat(0, 1)
    ELSE IF number(Head(values)) = None THEN total(Tail(values))
    ELSE f_add(number(Head(values)), total(Tail(values)))

\* C15: sum(E) is the sum over the rows of the number E coerces to; a row
\* where E is absent or does not coerce counts as 0 and never makes the sum
\* absent or raise; over an empty table the sum is 0.
C15_SumSkipsNonNumbers ==
    pc = "shown" =>
        \A e \in FnArgs :
            call.expr = fn(<<"s", "u", "m">>, e) =>
                /\ raised = "" /\ ~failed
                /\ result = formatted(total(arg_values(e)))
                /\ data_or_empty(call.data) = <<>> => result = <<"0">>

\* a text that is no number stood between two numbers and the sum went on
C15_Witness ==
    /\ pc = "shown" /\ result = <<"2">>
    /\ call.expr = fn(<<"s", "u", "m">>, binary(ColA, <<"+">>, <<"1">>))
    /\ Len(data_or_empty(call.data)) = 2
    /\ \E i \in 1..2 : atom_value(ColA, data_or_empty(call.data)[i]) = PyStr(<<"x">>)

\* the values that take part in min, max and unique: neither absent nor empty
contributing(values) ==
    {i \in DOMAIN values : values[i] # None /\ text_of(values[i]) # <<>>}

\* the number a value coerces to, or the value itself
key(v) == IF number(v) # None THEN number(v) ELSE v

\* x is below y, both numbers or both text
below(x, y) == IF x.t = "str" THEN str_lt(x.s, y.s) ELSE num_lt(x, y)

\* C16: min(E) and max(E) are the least and the greatest value of E over the
\* rows where E is neither absent nor empty, compared as numbers when the
\* values coerce and as text otherwise; the result is the value of one of the
\* rows for every table, also one of numbers and text, and absent when no
\* row takes part.
C16_MinMaxOverAnyRows ==
    pc = "shown" =>
        \A e \in FnArgs \ {binary(ColA, <<">">>, <<"1">>)} :
        \A name \in {<<"m", "i", "n">>, <<"m", "a", "x">>} :
            call.expr = fn(name, e) =>
                LET values == arg_values(e)
                    rows == contributing(values)
                    alike == \A i, j \in rows : key(values[i]).t = key(values[j]).t
                IN  /\ raised = "" /\ ~failed
                    /\ rows = {} => result = <<>>
                    /\ rows # {} => \E i \in rows : result = text_of(key(values[i]))
                    /\ alike /\ rows # {} =>
                           \E i \in rows :
                               /\ result = text_of(key(values[i]))
                               /\ \A j \in rows :
                                      IF name = <<"m", "i", "n">>
                                      THEN ~below(key(values[j]), key(values[i]))
                                      ELSE ~below(key(values[i]), key(values[j]))

\* C17: unique(E) is the number of distinct non-empty text renderings of E
\* over the rows, an integral number rendering without a decimal point: the
\* number 1 and the text '1' count once, absent and empty values do not count.
C17_UniqueCountsRenderings ==
    pc = "shown" =>
        \A e \in FnArgs :
            call.expr = fn(<<"u", "n", "i", "q", "u", "e">>, e) =>
                /\ raised = "" /\ ~failed
                /\ result = int_str(Cardinality({text_of(arg_values(e)[i]) :
                                                    i \in contributing(arg_values(e))}))

\* the value of the column named by the reference x in the row r
cell(x, r) == IF r.none THEN None ELSE dict_get(r.cells, SubSeq(x, 2, Len(x) - 1))

\* C19: a column reference is the value of the current row for that name,
\* and absent, without raising, when the row has no such key or there is no
\* row; in the argument of an aggregate it is the value of the row scanned,
\* not of the caller's current row.
C19_ColumnReference ==
    pc = "shown" =>
        \A x \in {ColA, ColB} :
            /\ call.expr = x =>
                   /\ raised = "" /\ ~failed
                   /\ result = formatted(cell(x, call.row))
                   /\ top_value = cell(x, call.row)
            /\ call.expr = fn(<<"s", "u", "m">>, x) =>
                   /\ raised = "" /\ ~failed
                   /\ result = formatted(total([i \in 1..Len(data_or_empty(call.data)) |->
                                                   cell(x, data_or_empty(call.data)[i])]))
            /\ call.expr = fn(<<"c", "o", "u", "n", "t">>, x) =>
                   /\ raised = "" /\ ~failed
                   /\ result = int_str(Cardinality({i \in 1..Len(data_or_empty(call.data)) :
                                           truthy(cell(x, data_or_empty(call.data)[i]))}))

\* the caller's row holds text in column a, the rows scanned hold a number
\* and nothing: the sum is that of the rows scanned
C19_Witness ==
    /\ pc = "shown" /\ result = <<"2", ".", "5">>
    /\ call.expr = fn(<<"s", "u", "m">>, ColA)
    /\ cell(ColA, call.row) = PyStr(<<"x">>)
    /\ Len(data_or_empty(call.data)) = 2
    /\ cell(ColA, data_or_empty(call.data)[2]) = None

(***************************************************************************)
(* The formatter                                                           *)
(***************************************************************************)
\* C18: the formatter makes the empty string of absent, the literal text of
\* a boolean, the text itself of a text and the integer digits, without a
\* decimal point, of every integral number, and it returns a string for
\* every value the evaluator produces.
C18_FormatterIsTotal ==
    pc = "shown" /\ call.expr \in FormatExprs =>
        /\ raised = "" /\ ~failed
        /\ is_string(result)
        /\ top_value = None => result = <<>>
        /\ top_value.t = "bool" =>
               result = (IF top_value.n = 1 THEN <<"T", "r", "u", "e">>
                         ELSE <<"F", "a", "l", "s", "e">>)
        /\ top_value.t = "str" => result = top_value.s
        /\ top_value.t \in {"int", "float"} /\ top_value.d = 1 => result = int_str(top_value.n)

(***************************************************************************)
(* Precedence and associativity                                            *)
(***************************************************************************)
\* the level of a binary operator: || lowest, then comparison, then + and -,
\* then * and /
level(op) ==
    IF op = ConcatOp THEN 0
    ELSE IF op \in CompareOps THEN 1
    ELSE IF op \in {<<"+">>, <<"-">>} THEN 2
    ELSE 3

\* the number of parentheses open before token i
depth(tokens, i) ==
    Cardinality({j \in 1..(i - 1) : tokens[j].k = "LPAREN"})
        - Cardinality({j \in 1..(i - 1) : tokens[j].k = "RPAREN"})

\* the binary operators outside every parenthesis: an operator after an
\* operand is binary, any other is a sign
binary_ops(tokens) ==
    {i \in 2..Len(tokens) : /\ tokens[i].k = "OP"
                            /\ tokens[i - 1].k \in {"NUM", "RPAREN"}
                            /\ depth(tokens, i) = 0}

\* the operator applied last: the rightmost one of the lowest level
last_op(tokens) ==
    CHOOSE i \in binary_ops(tokens) :
        \A j \in binary_ops(tokens) :
            \/ level(tokens[j].v.s) > level(tokens[i].v.s)
            \/ level(tokens[j].v.s) = level(tokens[i].v.s) /\ j <= i

\* x op y for an operator of any level
apply(op, x, y) ==
    IF op = ConcatOp THEN PyStr(text_of(x) \o text_of(y))
    ELSE IF op \in CompareOps THEN PyBool(compared(op, x, y))
    ELSE arith(op, x, y)

\* -x
minus(x) == IF number(x) = None THEN None ELSE f_neg(number(x))

\* the reference evaluator: an expression is its last operator applied to the
\* values of what stands left and right of it; without an operator outside
\* parentheses it is a negation, a group or a literal
RECURSIVE ref(_)
ref(tokens) ==
    IF binary_ops(tokens) # {}
    THEN apply(tokens[last_op(tokens)].v.s,
               ref(SubSeq(tokens, 1, last_op(tokens) - 1)),
               ref(SubSeq(tokens, last_op(tokens) + 1, Len(tokens))))
    ELSE IF tokens[1].k = "OP" THEN minus(ref(Tail(tokens)))
    ELSE IF tokens[1].k = "LPAREN" THEN ref(SubSeq(tokens, 2, Len(tokens) - 1))
    ELSE tokens[1].v

\* C20: the result is that of the reference evaluator: unary minus binds
\* tightest, * and / bind tighter than + and -, both levels go from left to
\* right, parentheses override, and comparison binds tighter than || and
\* looser than arithmetic.
C20_PrecedenceAndAssociativity ==
    pc = "shown" /\ call.expr \in PrecExprs =>
        /\ raised = "" /\ ~failed
        /\ result = formatted(ref(tokens_of(call.expr)))

\* 10 - 3 - 2 is 5
C20_Witness ==
    /\ pc = "shown" /\ result = <<"5">>
    /\ call.expr = binary(binary(<<"1", "0">>, <<"-">>, <<"3">>), <<"-">>, <<"2">>)

(***************************************************************************)
(* One comparison per level                                                *)
(***************************************************************************)
\* x op y, a boolean
cmp(op, x, y) == PyBool(compared(op, x, y))

\* the value of a literal or column token for the row r
token_value(t, r) == IF t.k = "COL" THEN cell(column(t.v.s), r) ELSE t.v

\* C21: in x op1 y op2 z the evaluator computes x op1 y and does not apply
\* op2 to it; in (x op1 y) op2 z the second comparison is applied to the
\* boolean of the first.
C21_OneComparisonPerLevel ==
    LET t == tokens_of(call.expr)
    IN  /\ pc = "shown" /\ call.expr \in ChainFlat =>
               /\ raised = "" /\ ~failed
               /\ result = str(cmp(t[2].v.s, token_value(t[1], call.row),
                                   token_value(t[3], call.row)))
               /\ ev.pos = 3
        /\ pc = "shown" /\ call.expr \in ChainGrouped =>
               /\ raised = "" /\ ~failed
               /\ result = str(cmp(t[6].v.s,
                                   cmp(t[3].v.s, token_value(t[2], call.row),
                                       token_value(t[4], call.row)),
                                   token_value(t[7], call.row)))
               /\ ev.pos = 7

\* 1 < 2 >= 3 is True, the value of 1 < 2, while (1 < 2) >= 3 is False
C21_Witness ==
    /\ pc = "shown" /\ result = <<"T", "r", "u", "e">>
    /\ call.expr = binary(binary(<<"1">>, <<"<">>, <<"2">>), <<">", "=">>, <<"3">>)
    /\ evaluate_row_expr(binary(parens(binary(<<"1">>, <<"<">>, <<"2">>)), <<">", "=">>, <<"3">>),
                         call.row, call.data).v = <<"F", "a", "l", "s", "e">>

(***************************************************************************)
(* The argument of an aggregate                                            *)
(***************************************************************************)
\* the index of the closing parenthesis that balances the opening one at
\* index open, 0 when there is none
closing(tokens, open) ==
    LET found == {i \in (open + 1)..Len(tokens) :
                     /\ tokens[i].k = "RPAREN"
                     /\ depth(tokens, i) = depth(tokens, open) + 1}
    IN  IF found = {} THEN 0 ELSE CHOOSE i \in found : \A j \in found : i <= j

\* the values of the token slice, evaluated on its own from its first token,
\* for every row of the table
slice_values(arg, rows) ==
    [i \in 1..Len(rows) |-> parse_concat(_Evaluator(arg, rows, rows[i])).v]

\* C22: an aggregate call captures the tokens between its opening
\* parenthesis and the matching closing one, nested parentheses counted by
\* depth, and evaluates that slice from its first token for every row;
\* afterwards the cursor of the caller is just past the matching closing
\* parenthesis, whatever the table holds.
C22_AggregateCapturesArgument ==
    pc = "shown" /\ call.expr \in AggCallExprs =>
        LET t == tokens_of(call.expr)
            rows == data_or_empty(call.data)
            arg == SubSeq(t, 3, closing(t, 2) - 1)
        IN  /\ raised = "" /\ ~failed
            /\ _collect_arg_tokens(at(_Evaluator(t, rows, call.row), 2)).v = arg
            /\ ev.tokens = t /\ ev.pos = closing(t, 2)
            /\ result = IF t[1].v.s = <<"s", "u", "m">>
                        THEN formatted(total(slice_values(arg, rows)))
                        ELSE int_str(Cardinality({i \in 1..Len(rows) :
                                                     truthy(slice_values(arg, rows)[i])}))

\* a sum whose argument holds two groups, over two rows, with a token left
\* after the call
C22_Witness ==
    /\ pc = "shown" /\ result = <<"1", "1">>
    /\ call.expr = fn(<<"s", "u", "m">>,
                      binary(parens(binary(ColA, <<"+">>, <<"1">>)), <<"*">>, parens(<<"2">>)))
                   \o <<" ", "5">>
    /\ ev.pos = 12

(***************************************************************************)
(* Unknown functions and identifiers                                       *)
(***************************************************************************)
\* C23: a call of an identifier that names no function is absent, and the
\* evaluation goes on at the token after the parenthesis that balances the
\* opening one of the call; an identifier without a call is absent and takes
\* only itself; the names of the functions are matched in any case.
C23_UnknownCallIsAbsent ==
    LET t == tokens_of(call.expr)
    IN  /\ pc = "shown" /\ call.expr \in UnknownCalls =>
               /\ raised = "" /\ ~failed
               /\ result = <<>> /\ top_value = None
               /\ ev.pos = closing(t, 2) /\ ev.pos = Len(t)
        /\ pc = "shown" /\ call.expr \in UnknownJoined =>
               /\ raised = "" /\ ~failed
               /\ result = <<"x">>
               /\ closing(t, 2) = Len(t) - 2 /\ ev.pos = Len(t)
        /\ pc = "shown" /\ call.expr \in BareNames =>
               /\ raised = "" /\ ~failed
               /\ result = (IF Len(t) = 3 THEN <<"x">> ELSE <<>>)
               /\ ev.pos = (IF Len(t) = 2 THEN 1 ELSE Len(t))
        /\ pc = "shown" /\ call.expr \in CapitalCalls =>
               /\ raised = ""
               /\ failed = evaluate_row_expr(lower(call.expr), call.row, call.data).failed
               /\ ~failed => result = evaluate_row_expr(lower(call.expr), call.row, call.data).v

\* f(1, (2)) || 'x' is 'x'
C23_Witness ==
    /\ pc = "shown" /\ result = <<"x">>
    /\ call.expr = fn(<<"f">>, <<"1", ",", " ", "(", "2", ")">>) \o JoinedText
    /\ ev.pos = 10

(***************************************************************************)
(* Closing parentheses at the end of the input                             *)
(***************************************************************************)
\* C24: an expression that ends with closing parentheses has the same result
\* without them, for every row and table (where the evaluation fails, it
\* fails without them too).
C24_ClosingParenthesesOptional ==
    pc = "shown" /\ call.expr \in ClosedExprs =>
        LET open == evaluate_row_expr(unclosed(call.expr), call.row, call.data)
        IN  /\ raised = "" /\ open.exc = ""
            /\ open.failed = failed
            /\ ~failed => open.v = result

(***************************************************************************)
(* Missing operands and arguments                                          *)
(***************************************************************************)
\* C25: an if, a round or a group with a missing argument or operand takes no
\* token after its own closing parenthesis: joined to 'z', the result is the
\* rendering of the construct alone followed by z (if(1, 'a') || 'z' is
\* 'az', round(2.4, ) || 'x' is '2x').
C25_MissingOperandIsLocal ==
    pc = "shown" /\ call.expr \in MissingJoined =>
        LET construct == SubSeq(call.expr, 1, Len(call.expr) - Len(JoinedZ))
        IN  /\ raised = "" /\ ~failed
            /\ result = evaluate_row_expr(construct, call.row, call.data).v \o <<"z">>

(***************************************************************************)
(* The cursor                                                              *)
(***************************************************************************)
\* the cursor of the evaluator e started at 0, stayed within 0..len(tokens),
\* never went back, and is the last value it was given
cursor_ok(e) ==
    /\ e.pos \in 0..Len(e.tokens)
    /\ e.trace # <<>> => e.trace[1] = 0 /\ e.trace[Len(e.trace)] = e.pos
    /\ \A i \in 1..Len(e.trace) : e.trace[i] \in 0..Len(e.tokens)
    /\ \A i \in 1..(Len(e.trace) - 1) : e.trace[i] <= e.trace[i + 1]

\* the evaluator objects of the rows of the aggregate call that opens at
\* token 2, as parse_concat left them
row_evaluators(tokens, rows) ==
    LET arg == _collect_arg_tokens(at(_Evaluator(tokens, rows, NoRow), 2)).v
    IN  {parse_concat(_Evaluator(arg, rows, rows[i])) : i \in 1..Len(rows)}

\* C26: the cursor of every evaluator stays within 0..len(tokens) and never
\* decreases, the tokens are those the tokenizer produced, and no read is
\* out of range (IndexError), for the evaluator of the expression and for
\* the evaluators of the rows of an aggregate.
C26_CursorInvariant ==
    /\ cursor_ok(ev)
    /\ pc = "shown" =>
           LET t == tokens_of(call.expr)
               rows == data_or_empty(call.data)
           IN  /\ ev.tokens = t
               /\ parse_concat(_Evaluator(t, rows, call.row)).exc # "IndexError"
               /\ call.expr \in AggCallExprs =>
                      \A r \in row_evaluators(t, rows) :
                          /\ r.exc # "IndexError"
                          /\ cursor_ok(r.self)
                          /\ r.self.tokens = SubSeq(t, 3, closing(t, 2) - 1)

\* if() read its closing parenthesis as the missing condition and stopped
\* at the end of the tokens
C26_Witness ==
    /\ pc = "shown" /\ call.expr = <<"i", "f", "(", ")">>
    /\ ev.pos = 3 /\ ev.trace = <<0, 1, 2, 3>> /\ ~failed

(***************************************************************************)
(* Termination                                                             *)
(***************************************************************************)
\* tokens is the call of an aggregate: its name and an opening parenthesis
aggregate_call(tokens) ==
    /\ Len(tokens) >= 2
    /\ tokens[1].k = "IDENT" /\ lower(tokens[1].v.s) \in FnNames
    /\ tokens[2].k = "LPAREN"

\* every value the cursor of e was given is one more than the one before, so
\* e consumed at most len(tokens) tokens
advancing(e) ==
    /\ \A i \in 1..(Len(e.trace) - 1) : e.trace[i + 1] = e.trace[i] + 1
    /\ Len(e.trace) <= Len(e.tokens) + 1

\* the slice the evaluators of the rows get is shorter than the tokens of
\* the evaluator that calls the aggregate
shorter_slice(tokens) ==
    aggregate_call(tokens) =>
        Len(_collect_arg_tokens(at(_Evaluator(tokens, <<>>, NoRow), 2)).v) < Len(tokens)

argument(e, r, rows) == parse_concat(_Evaluator(tokens_of(e), rows, r)).v

\* x rounded to the nearest integer (ties to the even one)
nearest(x) == IF x.d = 0 THEN x ELSE PyInt(round_half_even(x.n, x.d))

\* what round gives for value and the digit count digits, as the claim has
\* it: absent when value has no number, the nearest integer when digits is
\* absent, empty or has no number (or one without an integer part, inf and
\* nan), and value rounded to the truncated digits otherwise
rounded(value, digits) ==
    IF number(value) = None THEN None
    ELSE IF digits = None \/ digits = PyStr(<<>>) \/ number(digits) = None
    THEN nearest(number(value))
    ELSE IF number(digits).d = 0 THEN nearest(number(value))
    ELSE round2(number(value), int_of_float(number(digits)).v.n)

\* C28: round(value) and round(value, digits) are absent exactly when value
\* has no number; otherwise the nearest integer when digits is omitted,
\* absent, empty or without a number, and the value rounded to the truncated
\* digit count when digits has a number; the evaluation does not fail.
C28_Round ==
    pc = "shown" /\ call.expr \in RoundExprs =>
        LET rows == data_or_empty(call.data)
        IN  /\ \A v \in RoundValues :
                   call.expr = round_of(v) =>
                       /\ raised = "" /\ ~failed
                       /\ result = formatted(rounded(argument(v, call.row, rows), None))
                       /\ result = <<>> <=> number(argument(v, call.row, rows)) = None
            /\ \A v \in RoundValues, d \in RoundDigits :
                   call.expr = round_to(v, d) =>
                       /\ raised = "" /\ ~failed
                       /\ result = formatted(rounded(argument(v, call.row, rows),
                                                     argument(d, call.row, rows)))
                       /\ result = <<>> <=> number(argument(v, call.row, rows)) = None

(***************************************************************************)
(* Parsing does not depend on the data                                     *)
(***************************************************************************)
\* C29: the cursor positions of the evaluator of an expression (its history
\* and the tokens it stands on) are the same for every current row and every
\* table for which the evaluation completes.
C29_DataIndependentParsing ==
    pc = "shown" /\ ~failed =>
        \A r \in ParseRows, d \in ParseTables :
            LET other == evaluate_row_expr(call.expr, r, d)
            IN  ~other.failed =>
                    /\ other.ev.tokens = ev.tokens
                    /\ other.ev.pos = ev.pos
                    /\ other.ev.trace = ev.trace

\* if("a", 'y', 'n') consumed its eight tokens for a row whose a is truthy,
\* like it does where a is missing
C29_Witness ==
    /\ pc = "shown" /\ ~failed
    /\ call.expr = iff(ColA, quoted(<<"y">>), quoted(<<"n">>))
    /\ result = <<"y">> /\ ev.pos = 8 /\ Len(ev.trace) = 9
    /\ evaluate_row_expr(call.expr, NoRow, call.data).v = <<"n">>
    /\ evaluate_row_expr(call.expr, NoRow, call.data).ev.trace = ev.trace

(***************************************************************************)
(* Trailing tokens                                                         *)
(***************************************************************************)
\* C30: tokens that follow a complete expression, and tokens that follow the
\* expression inside the argument of an aggregate, are ignored: the result
\* is that of the expression without them, the evaluation does not fail, and
\* the cursor stops where the expression ends.
C30_TrailingTokensIgnored ==
    /\ pc = "shown" /\ call.expr \in TrailExprs =>
           \A p \in TrailPrefixes, s \in TrailSuffixes :
               call.expr = p \o s =>
                   /\ raised = "" /\ ~failed
                   /\ result = evaluate_row_expr(p, call.row, call.data).v
                   /\ ~evaluate_row_expr(p, call.row, call.data).failed
                   /\ ev.pos = Len(tokens_of(p))
                   /\ ev.tokens = tokens_of(p) \o tokens_of(s)
    /\ pc = "shown" /\ call.expr \in TrailCalls =>
           \A name \in FnNames, p \in TrailArgs, s \in InnerSuffixes :
               call.expr = fn(name, p \o s) =>
                   /\ raised = "" /\ ~failed
                   /\ result = evaluate_row_expr(fn(name, p), call.row, call.data).v
                   /\ ~evaluate_row_expr(fn(name, p), call.row, call.data).failed
                   /\ ev.pos = Len(ev.tokens)

\* 1 + 2 followed by ) + 1 is 3: the cursor stays at the third of six tokens
C30_Witness ==
    /\ pc = "shown" /\ ~failed /\ result = <<"3">>
    /\ call.expr = binary(<<"1">>, <<"+">>, <<"2">>) \o <<" ", ")", " ", "+", " ", "1">>
    /\ ev.pos = 3 /\ Len(ev.tokens) = 6

=============================================================================
